---------------------------- MODULE Spec2Model ----------------------------
(***************************************************************************)
(* ShoreSquad (src/js/app.js): the location resolver, the NEA weather      *)
(* fetcher/normaliser and the application state that uses them.            *)
(*                                                                         *)
(* Numbers.  A JavaScript number read from the weather API is kept as an   *)
(* integer count of tenths (27.4 is 274), so that Math.round and the       *)
(* strict threshold comparisons of the source act on fractional readings.  *)
(* N(x) is the whole number x in that unit.  Fields the source rounds      *)
(* (temperature, humidity, windSpeed of a current record) hold whole       *)
(* units; rainfall is copied unrounded and stays in tenths.                *)
(*                                                                         *)
(* Exceptions.  An expression that can throw evaluates to Thrown or to     *)
(* Ok(v); try/catch is the case distinction on it.                         *)
(*                                                                         *)
(* Optional values.  A value that may be undefined (the result of          *)
(* Array.prototype.find, list[0] of an empty list) is a sequence of length *)
(* 0 (undefined) or 1.                                                     *)
(***************************************************************************)
EXTENDS Integers, Sequences, FiniteSets, TLC

VARIABLES
  condArgs,       \* determineCondition: the arguments of the call
  condResult,     \* determineCondition: the label returned ("none" before the call)
  fmtCall,        \* format harness: which formatter is applied
  fmtData,        \* format harness: the payload handed to formatCurrentWeather
  fmtForecastData,\* format harness: the payload handed to formatForecastData
  fmtResult,      \* format harness: <<>> before the call, <<outcome>> after it
  wpc,            \* getCurrentWeather: position of the async function
  realtimeFetch,  \* how fetchRealtimeWeather ended ("none", "pending", ...)
  forecastFetch,  \* how fetch4DayForecast ended
  realtimeData,   \* getCurrentWeather: const realtimeData (after the first await)
  forecastData,   \* getCurrentWeather: const forecastData (after the second await)
  weatherPromise, \* getCurrentWeather: settlement of the promise it returned
  fetchLog,       \* the endpoints requested with fetch(), in the order of the calls
  hasGeolocation, \* navigator.geolocation is present
  storageWritable,\* localStorage.setItem succeeds (FALSE: it throws)
  storageReadable,\* localStorage.getItem succeeds (FALSE: it throws)
  localStorage,   \* the stored string per key (<<>>: key absent)
  geoRequest,     \* navigator.geolocation.getCurrentPosition: "none", "pending", "done"
  geoRequests,    \* the number of calls of navigator.geolocation.getCurrentPosition
  geoPromise,     \* the promise GeolocationService.getCurrentPosition returned
  locPc,          \* loadUserLocation: position of the async function
  userLocation,   \* app.userLocation (NoLocation: null)
  hasIntersectionObserver, \* window.IntersectionObserver is present
  initPc,         \* init: position of the async function
  initPromise,    \* the promise init() returned
  initSteps,      \* the steps of init that have completed, in order
  weatherPc,      \* loadWeatherData: position of the async function
  weatherData,    \* app.weatherData (<<>>: null)
  cleanupEvents,  \* app.cleanupEvents
  crews,          \* app.crews
  notified,       \* the notifications shown so far, in order
  notices,        \* per notification shown: its element and its pending timers
  mapCards,       \* the event cards in #cleanup-map
  crewCards,      \* the crew cards in #crew-list
  timeOrigin,     \* the wall-clock time of the page load
  now,            \* the time since the page load
  activeFilters,  \* app.activeFilters
  activeButtons,  \* the filter buttons carrying the class filter-btn--active
  debounceTimer,  \* the timer of the debounced handleFilterChange (<<>>: none)
  lastClick,      \* history: the last filter click, the clicks since the handler
                  \* last ran and its runs since that click (<<>>: no click yet)
  dmCall,         \* DataManager harness: the method called ("none" before the call)
  dmResult,       \* DataManager harness: <<>> before the call, <<outcome>> after it
  dmLog,          \* DataManager harness: the calls made and what each returned
  fallbackResults,\* failure-path harness: what each invocation returned, in order
  distArgs,       \* calculateDistance: the arguments of the call
  distResult,     \* calculateDistance: <<>> before the call, <<metres>> after it
  scrollY,        \* window.scrollY
  innerWidth,     \* window.innerWidth
  headerScrolled, \* .header carries the class header--scrolled
  menuOpen,       \* .nav__menu carries the class nav__menu--open
  ariaExpanded,   \* the aria-expanded attribute of .nav__toggle
  inThrottle,     \* per throttled handler: <<>> (flag clear) or <<due>>, the
                  \* instant its timer clears the flag
  lastRun         \* history: per throttled handler, the instant it last ran

condVars == <<condArgs, condResult>>
fmtVars == <<fmtCall, fmtData, fmtForecastData, fmtResult>>
weatherVars == <<wpc, realtimeFetch, forecastFetch, realtimeData, forecastData,
                weatherPromise, fetchLog>>
geoVars == <<hasGeolocation, storageWritable, storageReadable, localStorage,
             geoRequest, geoRequests, geoPromise, locPc, userLocation>>
initVars == <<hasIntersectionObserver, initPc, initPromise, initSteps, weatherPc,
              weatherData, cleanupEvents, crews>>
domVars == <<notified, notices, mapCards, crewCards>>
appVars == <<initVars, domVars>>
uiVars == <<timeOrigin, now, activeFilters, activeButtons, debounceTimer, lastClick>>
dataVars == <<dmCall, dmResult, dmLog, fallbackResults>>
distVars == <<distArgs, distResult>>
windowVars == <<scrollY, innerWidth, headerScrolled, menuOpen, ariaExpanded,
                inThrottle, lastRun>>
pageVars == <<appVars, uiVars, dataVars, distVars, windowVars>>
vars == <<condVars, fmtVars, weatherVars, geoVars, pageVars>>

---------------------------------------------------------------------------
(* JavaScript helpers *)

N(x) == x * 10

\* Math.round on a number held in tenths: to the nearest integer, halves up.
MathRound(x) == (x + 5) \div 10

Thrown == [threw |-> TRUE]
Ok(v) == [threw |-> FALSE, value |-> v]

\* list.find(station => station.station_id === a || ...): the first element
\* whose station_id is one of ids, or undefined.
Find(list, ids) ==
  LET hits == {i \in 1..Len(list) : list[i].station_id \in ids}
  IN IF hits = {} THEN <<>>
     ELSE <<list[CHOOSE i \in hits : \A j \in hits : i <= j]>>

\* list[0]
First(list) == IF Len(list) = 0 THEN <<>> ELSE <<list[1]>>

\* a || b on optional objects
OrElse(a, b) == IF a # <<>> THEN a ELSE b

---------------------------------------------------------------------------
(* WeatherService: the condition label, description and icon *)

determineCondition_NonStrict(temp, humidity, rainfall) ==
  IF rainfall >= N(5) THEN "rainy"
  ELSE IF humidity >= N(80) THEN "humid"
  ELSE IF temp >= N(32) THEN "hot"
  ELSE IF temp <= N(26) THEN "cool"
  ELSE "pleasant"

determineCondition_HotFirst(temp, humidity, rainfall) ==
  IF rainfall > N(5) THEN "rainy"
  ELSE IF temp > N(32) THEN "hot"
  ELSE IF humidity > N(80) THEN "humid"
  ELSE IF temp < N(26) THEN "cool"
  ELSE "pleasant"

determineCondition(temp, humidity, rainfall) ==
  IF rainfall > N(5) THEN "rainy"
  ELSE IF humidity > N(80) THEN "humid"
  ELSE IF temp > N(32) THEN "hot"
  ELSE IF temp < N(26) THEN "cool"
  ELSE "pleasant"

getConditionDescription(temp, rainfall) ==
  IF rainfall > N(10) THEN "Heavy rain - consider rescheduling cleanup"
  ELSE IF rainfall > N(2) THEN "Light rain - bring umbrellas!"
  ELSE IF temp > N(33) THEN "Very hot - stay hydrated and take breaks"
  ELSE IF temp > N(30) THEN "Great weather for beach cleanup!"
  ELSE "Perfect conditions for outdoor activities!"

getWeatherIcon(rainfall, temp) ==
  IF rainfall > N(5) THEN "rain-cloud"
  ELSE IF rainfall > 0 THEN "sun-behind-rain-cloud"
  ELSE IF temp > N(32) THEN "sun"
  ELSE IF temp > N(28) THEN "sun-behind-small-cloud"
  ELSE "sun-behind-cloud"

---------------------------------------------------------------------------
(* The realtime payload (GET /environment/realtime-weather-readings) *)

\* The longest station list of a reading type in a response.
MaxStations == 2

Quantities == {"air_temperature", "relative_humidity", "wind_speed", "rainfall"}

\* The stations that report each reading type.  S24 and S109 are the Changi
\* stations the source prefers, S64 is Pasir Ris, S50 is any other station.
StationIds(q) ==
  CASE q = "air_temperature" -> {"S24", "S109", "S50"}
    [] q = "relative_humidity" -> {"S24", "S50"}
    [] q = "wind_speed" -> {"S24", "S50"}
    [] q = "rainfall" -> {"S64", "S50"}

\* What each station reports, in tenths: 27.4, 30.5 and 33.4 degrees C;
\* 70.5 and 84.5 percent; 2.5 and 4.3 m/s; 0 and 6.2 mm.
StationValue(q, id) ==
  CASE q = "air_temperature" ->
         (IF id = "S24" THEN 274 ELSE IF id = "S109" THEN 305 ELSE 334)
    [] q = "relative_humidity" -> (IF id = "S24" THEN 705 ELSE 845)
    [] q = "wind_speed" -> (IF id = "S24" THEN 25 ELSE 43)
    [] q = "rainfall" -> (IF id = "S64" THEN 0 ELSE 62)

Reading(q, id) == [station_id |-> id, value |-> StationValue(q, id)]

\* The station lists of reading type q: no station twice, at most maxStations.
StationLists(q, maxStations) ==
  LET ids == UNION {[1..n -> StationIds(q)] : n \in 0..maxStations}
      distinct == {s \in ids : \A i, j \in DOMAIN s : i # j => s[i] # s[j]}
  IN {[i \in DOMAIN s |-> Reading(q, s[i])] : s \in distinct}

\* shape "null": the body is JSON null; "noItems": items is an empty list;
\* "noReadings": items[0] has no readings; "ok": items[0].readings is an
\* object, whose properties named in `missing` are absent.
MalformedRealtime(shape) ==
  [shape |-> shape, timestamp |-> "api-timestamp", missing |-> {},
   air_temperature |-> <<>>, relative_humidity |-> <<>>,
   wind_speed |-> <<>>, rainfall |-> <<>>]

ListsOrMissing(q, maxStations) ==
  {[missing |-> FALSE, list |-> l] : l \in StationLists(q, maxStations)}
    \cup {[missing |-> TRUE, list |-> <<>>]}

RealtimePayloadsUpTo(maxStations) ==
  {MalformedRealtime(s) : s \in {"null", "noItems", "noReadings"}} \cup
  {[shape |-> "ok", timestamp |-> "api-timestamp",
    missing |-> {q \in Quantities :
                   \/ q = "air_temperature" /\ a.missing
                   \/ q = "relative_humidity" /\ h.missing
                   \/ q = "wind_speed" /\ w.missing
                   \/ q = "rainfall" /\ r.missing},
    air_temperature |-> a.list, relative_humidity |-> h.list,
    wind_speed |-> w.list, rainfall |-> r.list] :
     a \in ListsOrMissing("air_temperature", maxStations),
     h \in ListsOrMissing("relative_humidity", maxStations),
     w \in ListsOrMissing("wind_speed", maxStations),
     r \in ListsOrMissing("rainfall", maxStations)}

RealtimePayloads == RealtimePayloadsUpTo(MaxStations)

---------------------------------------------------------------------------
(* WeatherService.formatCurrentWeather *)

getFallbackCurrentWeather ==
  [temperature |-> 29, humidity |-> 78, windSpeed |-> 12, rainfall |-> 0,
   condition |-> "pleasant",
   description |-> "Typical Singapore weather - great for beach cleanup!",
   icon |-> "sun-behind-small-cloud", timestamp |-> "now",
   location |-> "Singapore"]

\* The station ids the find callbacks accept: the Changi area, Pasir Ris.
Changi == {"S24", "S109"}

PasirRis == {"S64"}

tempReading(data) ==
  OrElse(Find(data.air_temperature, Changi), First(data.air_temperature))

humidityReading(data) ==
  OrElse(Find(data.relative_humidity, Changi), First(data.relative_humidity))

\* readings.wind_speed ? (find(...) || wind_speed[0]) : null
windReading(data) ==
  IF "wind_speed" \in data.missing THEN <<>>
  ELSE OrElse(Find(data.wind_speed, Changi), First(data.wind_speed))

rainfallReading(data) ==
  OrElse(Find(data.rainfall, PasirRis), First(data.rainfall))

\* The object literal returned by the try block, from the four local numbers
\* (temperature, humidity and rainfall in tenths, windSpeed in km/h).
currentRecord_ByLabel(temperature, humidity, windSpeed, rainfall, timestamp) ==
  LET condition == determineCondition(temperature, humidity, rainfall)
  IN [temperature |-> MathRound(temperature), humidity |-> MathRound(humidity),
      windSpeed |-> windSpeed, rainfall |-> rainfall,
      condition |-> condition,
      description |->
        CASE condition = "rainy" -> "Light rain - bring umbrellas!"
          [] condition = "hot" -> "Very hot - stay hydrated and take breaks"
          [] condition = "pleasant" -> "Great weather for beach cleanup!"
          [] OTHER -> "Perfect conditions for outdoor activities!",
      icon |->
        CASE condition = "rainy" -> "rain-cloud"
          [] condition = "humid" -> "sun-behind-rain-cloud"
          [] condition = "hot" -> "sun"
          [] condition = "pleasant" -> "sun-behind-small-cloud"
          [] OTHER -> "sun-behind-cloud",
      timestamp |-> timestamp, location |-> "Pasir Ris Area"]

currentRecord(temperature, humidity, windSpeed, rainfall, timestamp) ==
  [temperature |-> MathRound(temperature), humidity |-> MathRound(humidity),
   windSpeed |-> windSpeed, rainfall |-> rainfall,
   condition |-> determineCondition(temperature, humidity, rainfall),
   description |-> getConditionDescription(temperature, rainfall),
   icon |-> getWeatherIcon(rainfall, temperature),
   timestamp |-> timestamp, location |-> "Pasir Ris Area"]

\* The try block.  data.items[0], items.readings and the find calls on an
\* absent air_temperature, relative_humidity or rainfall list throw a
\* TypeError.  `const windSpeed = windReading ? Math.round(windSpeed.value *
\* 3.6) : 10` reads windSpeed inside its own initialiser: with a wind reading
\* present the read is in the temporal dead zone and throws a ReferenceError.
formatCurrentWeatherTry(data) ==
  IF data.shape # "ok" THEN Thrown
  ELSE IF "air_temperature" \in data.missing THEN Thrown
  ELSE IF "relative_humidity" \in data.missing THEN Thrown
  ELSE IF "rainfall" \in data.missing THEN Thrown
  ELSE IF windReading(data) # <<>> THEN Thrown
  ELSE LET temperature ==
             IF tempReading(data) # <<>> THEN tempReading(data)[1].value ELSE N(28)
           humidity ==
             IF humidityReading(data) # <<>> THEN humidityReading(data)[1].value
             ELSE N(75)
           windSpeed == 10
           rainfall ==
             IF rainfallReading(data) # <<>> THEN rainfallReading(data)[1].value
             ELSE 0
       IN Ok(currentRecord(temperature, humidity, windSpeed, rainfall,
                           data.timestamp))

formatCurrentWeather_NoCatch(data) == formatCurrentWeatherTry(data)

formatCurrentWeather(data) ==
  IF formatCurrentWeatherTry(data).threw THEN Ok(getFallbackCurrentWeather)
  ELSE formatCurrentWeatherTry(data)

---------------------------------------------------------------------------
(* The forecast payload (GET /environment/4-day-weather-forecast) *)

\* The longest forecasts list of a response (the endpoint sends four days).
MaxForecastDays == 4

\* The forms of a day object: complete, without the optional wind, and
\* without temperature or relative_humidity (properties in `missing`).
DayKinds == {"full", "noWind", "noTemperature", "noHumidity"}

\* Day i of a response (its date: i days after the day of the request).  A
\* forecast text is held with the search words of getForecastIcon and
\* getForecastDescription that its lower-cased form contains.
Day(i, kind) ==
  [date |-> i,
   forecast |-> IF kind = "full"
                THEN [text |-> "Fair and warm", includes |-> {"fair"}]
                ELSE [text |-> "Thundery Showers",
                      includes |-> {"thunder", "shower"}],
   missing |-> CASE kind = "full" -> {}
                 [] kind = "noWind" -> {"wind"}
                 [] kind = "noTemperature" -> {"temperature"}
                 [] kind = "noHumidity" -> {"relative_humidity"},
   temperature |-> [high |-> 33 + i, low |-> 25],
   relative_humidity |-> [high |-> 95, low |-> 60 + i],
   wind |-> [speed |-> 15 + i, direction |-> "NNE"]]

ForecastLists ==
  UNION {{[i \in 1..n |-> Day(i, k[i])] : k \in [1..n -> DayKinds]} :
           n \in 0..MaxForecastDays}

\* shape "null": the body is JSON null; "noItems": items is an empty list;
\* "noForecasts": items[0] has no forecasts; "ok": items[0].forecasts is a list.
ForecastPayloads ==
  {[shape |-> s, forecasts |-> <<>>] : s \in {"null", "noItems", "noForecasts"}}
    \cup {[shape |-> "ok", forecasts |-> l] : l \in ForecastLists}

---------------------------------------------------------------------------
(* WeatherService.formatForecastData *)

getForecastIcon(forecast) ==
  IF "rain" \in forecast.includes \/ "shower" \in forecast.includes
    THEN "rain-cloud"
  ELSE IF "thunder" \in forecast.includes THEN "thunder-cloud"
  ELSE IF "cloud" \in forecast.includes THEN "cloud"
  ELSE IF "partly" \in forecast.includes THEN "sun-behind-cloud"
  ELSE IF "fair" \in forecast.includes \/ "sunny" \in forecast.includes
    THEN "sun"
  ELSE "sun-behind-small-cloud"

getForecastDescription(forecast) ==
  IF "rain" \in forecast.includes \/ "shower" \in forecast.includes
    THEN "Check weather before heading out"
  ELSE IF "thunder" \in forecast.includes
    THEN "Not suitable for beach activities"
  ELSE IF "fair" \in forecast.includes \/ "sunny" \in forecast.includes
    THEN "Perfect for beach cleanup!"
  ELSE "Good conditions for outdoor activities"

\* What Math.random() returns, in tenths: 0.0, 0.5 and 0.9.  One call of
\* getFallbackForecastData is given one draw for all its uses.
RandomDraws == {0, 5, 9}

RandomUpTo_Unrounded(r, k) == r * k

\* Math.round(Math.random() * k)
RandomUpTo(r, k) == MathRound(r * k)

FallbackDayNames == <<"Today", "Tomorrow", "Day 3", "Day 4">>

getFallbackForecastData(r) ==
  [index \in 1..Len(FallbackDayNames) |->
    [date |-> index - 1,
     forecast |-> [text |-> "Partly Cloudy", includes |-> {"partly", "cloud"}],
     temperature |-> [high |-> 32 + RandomUpTo(r, 3), low |-> 26 + RandomUpTo(r, 2)],
     humidity |-> [high |-> 85 + RandomUpTo(r, 10), low |-> 65 + RandomUpTo(r, 10)],
     wind |-> <<[speed |-> 10 + RandomUpTo(r, 5), direction |-> "NE"]>>,
     icon |-> IF index = 1 THEN "sun-behind-small-cloud" ELSE "sun-behind-cloud",
     description |-> "Good conditions for outdoor activities"]]

\* The object a day is mapped to; day.wind ? {...} : null is <<...>> or <<>>.
forecastEntry(day) ==
  [date |-> day.date, forecast |-> day.forecast,
   temperature |-> [high |-> day.temperature.high, low |-> day.temperature.low],
   humidity |-> [high |-> day.relative_humidity.high,
                 low |-> day.relative_humidity.low],
   wind |-> IF "wind" \in day.missing THEN <<>>
            ELSE <<[speed |-> day.wind.speed, direction |-> day.wind.direction]>>,
   icon |-> getForecastIcon(day.forecast),
   description |-> getForecastDescription(day.forecast)]

\* The try block: data.items[0], items.forecasts, forecasts.map and, in the
\* callback, day.temperature.high and day.relative_humidity.high throw a
\* TypeError on an absent object.
formatForecastDataTry(data) ==
  IF data.shape # "ok" THEN Thrown
  ELSE IF \E i \in 1..Len(data.forecasts) :
            \/ "temperature" \in data.forecasts[i].missing
            \/ "relative_humidity" \in data.forecasts[i].missing
    THEN Thrown
  ELSE Ok([i \in 1..Len(data.forecasts) |-> forecastEntry(data.forecasts[i])])

formatForecastData(data, r) ==
  IF formatForecastDataTry(data).threw THEN Ok(getFallbackForecastData(r))
  ELSE formatForecastDataTry(data)

getFallbackWeatherData(r) ==
  [current |-> getFallbackCurrentWeather, forecast |-> getFallbackForecastData(r)]

---------------------------------------------------------------------------
(* WeatherService.getCurrentWeather: an async function, one step per await *)

\* The longest station list in a response to a request of getCurrentWeather.
MaxFetchedStations == 1

FetchedRealtimePayloads == RealtimePayloadsUpTo(MaxFetchedStations)

\* The forecast responses to a request of getCurrentWeather: those whose
\* days all have the same form.
FetchedForecastPayloads ==
  {p \in ForecastPayloads :
     \A i, j \in 1..Len(p.forecasts) : p.forecasts[i].missing = p.forecasts[j].missing}

\* How a fetch*() call fails: fetch rejects (network), the status is not OK
\* (throw new Error), or response.json() rejects (the body is not JSON).
FetchFailures == {"rejected", "notOk", "badJson"}

\* CONFIG.WEATHER_ENDPOINTS
REALTIME == "/environment/realtime-weather-readings"
FORECAST == "/environment/4-day-weather-forecast"

fetchRealtimeWeather_Twice(log) == log \o <<REALTIME, REALTIME>>

\* The fetch() call of fetchRealtimeWeather: one request to the endpoint.
fetchRealtimeWeather(log) == Append(log, REALTIME)

\* The fetch() call of fetch4DayForecast.
fetch4DayForecast(log) == Append(log, FORECAST)

NoPromise == [state |-> "none"]
Pending == [state |-> "pending"]

\* The settlement of an async function's promise by the function's outcome.
Settle(outcome) ==
  IF outcome.threw THEN [state |-> "rejected"]
  ELSE [state |-> "fulfilled", value |-> outcome.value]

getCurrentWeatherTry_AllOrNothing(realtime, forecast, r) ==
  IF formatCurrentWeatherTry(realtime).threw \/ formatForecastDataTry(forecast).threw
    THEN Thrown
  ELSE Ok([current |-> formatCurrentWeather(realtime).value,
           forecast |-> formatForecastData(forecast, r).value])

\* return { current: ..., forecast: ... } in the try block.
getCurrentWeatherTry(realtime, forecast, r) ==
  IF formatCurrentWeather(realtime).threw \/ formatForecastData(forecast, r).threw
    THEN Thrown
  ELSE Ok([current |-> formatCurrentWeather(realtime).value,
           forecast |-> formatForecastData(forecast, r).value])

getCurrentWeatherCatch_Rethrow(outcome, r) == outcome

\* catch (error) { return this.getFallbackWeatherData(); }
getCurrentWeatherCatch(outcome, r) ==
  IF outcome.threw THEN Ok(getFallbackWeatherData(r)) ELSE outcome

GetCurrentWeatherCall ==
  /\ wpc = "idle"
  /\ wpc' = "awaitRealtime"
  /\ realtimeFetch' = "pending"
  /\ weatherPromise' = Pending
  /\ fetchLog' = fetchRealtimeWeather(fetchLog)
  /\ UNCHANGED <<forecastFetch, realtimeData, forecastData>>

FetchRealtimeWeatherFails ==
  /\ wpc = "awaitRealtime"
  /\ \E failure \in FetchFailures, r \in RandomDraws :
       /\ realtimeFetch' = failure
       /\ weatherPromise' = Settle(getCurrentWeatherCatch(Thrown, r))
  /\ wpc' = "returned"
  /\ UNCHANGED <<forecastFetch, realtimeData, forecastData, fetchLog>>

FetchRealtimeWeatherOk ==
  /\ wpc = "awaitRealtime"
  /\ \E data \in FetchedRealtimePayloads : realtimeData' = <<data>>
  /\ realtimeFetch' = "ok"
  /\ forecastFetch' = "pending"
  /\ wpc' = "awaitForecast"
  /\ fetchLog' = fetch4DayForecast(fetchLog)
  /\ UNCHANGED <<forecastData, weatherPromise>>

Fetch4DayForecastFails ==
  /\ wpc = "awaitForecast"
  /\ \E failure \in FetchFailures, r \in RandomDraws :
       /\ forecastFetch' = failure
       /\ weatherPromise' = Settle(getCurrentWeatherCatch(Thrown, r))
  /\ wpc' = "returned"
  /\ UNCHANGED <<realtimeFetch, realtimeData, forecastData, fetchLog>>

Fetch4DayForecastOk ==
  /\ wpc = "awaitForecast"
  /\ \E data \in FetchedForecastPayloads, r \in RandomDraws :
       /\ forecastData' = <<data>>
       /\ weatherPromise' =
            Settle(getCurrentWeatherCatch(
                     getCurrentWeatherTry(realtimeData[1], data, r), r))
  /\ forecastFetch' = "ok"
  /\ wpc' = "returned"
  /\ UNCHANGED <<realtimeFetch, realtimeData, fetchLog>>

WeatherIdle ==
  /\ wpc = "idle"
  /\ realtimeFetch = "none"
  /\ forecastFetch = "none"
  /\ realtimeData = <<>>
  /\ forecastData = <<>>
  /\ weatherPromise = NoPromise
  /\ fetchLog = <<>>

---------------------------------------------------------------------------
(* The formatters applied to every payload *)

FormatIdle ==
  /\ fmtCall = "none"
  /\ fmtData = MalformedRealtime("null")
  /\ fmtForecastData = [shape |-> "null", forecasts |-> <<>>]
  /\ fmtResult = <<>>

FormatInputs ==
  /\ fmtResult = <<>>
  /\ \/ /\ fmtCall = "current"
        /\ fmtData \in RealtimePayloads
        /\ fmtForecastData = [shape |-> "null", forecasts |-> <<>>]
     \/ /\ fmtCall = "forecast"
        /\ fmtData = MalformedRealtime("null")
        /\ fmtForecastData \in ForecastPayloads

FormatCurrentWeather ==
  /\ fmtCall = "current"
  /\ fmtResult = <<>>
  /\ fmtResult' = <<formatCurrentWeather(fmtData)>>
  /\ UNCHANGED <<fmtCall, fmtData, fmtForecastData>>

FormatForecastData ==
  /\ fmtCall = "forecast"
  /\ fmtResult = <<>>
  /\ \E r \in RandomDraws : fmtResult' = <<formatForecastData(fmtForecastData, r)>>
  /\ UNCHANGED <<fmtCall, fmtData, fmtForecastData>>

---------------------------------------------------------------------------
(* determineCondition applied to readings around its thresholds *)

CondTemps == {250, 259, 260, 261, 290, 319, 320, 321, 330}
CondHumidities == {700, 799, 800, 801, 900}
CondRainfalls == {0, 1, 49, 50, 51, 60}

CondIdle ==
  /\ condArgs = [temp |-> 0, humidity |-> 0, rainfall |-> 0]
  /\ condResult = "none"

CondInputs ==
  /\ condArgs \in [temp : CondTemps, humidity : CondHumidities,
                   rainfall : CondRainfalls]
  /\ condResult = "none"

DetermineCondition ==
  /\ condResult = "none"
  /\ condResult' =
       determineCondition(condArgs.temp, condArgs.humidity, condArgs.rainfall)
  /\ UNCHANGED condArgs

---------------------------------------------------------------------------
(* Utils.setLocalStorage, GeolocationService.getCurrentPosition and        *)
(* ShoreSquadApp.loadUserLocation.  Coordinates are in millionths of a     *)
(* degree, accuracy in metres.                                             *)

\* CONFIG.DEFAULT_LOCATION
DEFAULT_LOCATION ==
  [lat |-> 1381497, lng |-> 103955574, name |-> "Pasir Ris, Singapore"]

\* CONFIG.STORAGE_KEYS.USER_LOCATION
USER_LOCATION == "shoresquad_user_location"

\* CONFIG.STORAGE_KEYS.CREW_DATA, .CLEANUP_EVENTS and .USER_PREFERENCES
CREW_DATA == "shoresquad_crew_data"
CLEANUP_EVENTS == "shoresquad_cleanup_events"
USER_PREFERENCES == "shoresquad_preferences"

StorageKeys == {USER_LOCATION, CREW_DATA, CLEANUP_EVENTS, USER_PREFERENCES}

\* The positions the device may report (position.coords).
Positions ==
  [latitude : {1300000, 1381497}, longitude : {103800000, 103955574},
   accuracy : {10, 65}]

\* PositionError codes: PERMISSION_DENIED, POSITION_UNAVAILABLE, TIMEOUT (the
\* request is made with timeout: 10000).
PositionErrors == {"PERMISSION_DENIED", "POSITION_UNAVAILABLE", "TIMEOUT"}

\* The location object built from a position.
LocationOf(position) ==
  [lat |-> position.latitude, lng |-> position.longitude,
   accuracy |-> position.accuracy]

\* JSON.stringify of a location object: the text lists the properties in
\* insertion order, each with its value.
JSONStringify(location) ==
  << <<"lat", location.lat>>, <<"lng", location.lng>>,
     <<"accuracy", location.accuracy>> >>

\* JSON.parse of such a text.
JSONParse(text) ==
  [lat |-> text[1][2], lng |-> text[2][2], accuracy |-> text[3][2]]

setLocalStorage_KeepOnly(store, key, text, writable) ==
  IF writable /\ store[key] = <<>> THEN [store EXCEPT ![key] = text] ELSE store

\* Utils.setLocalStorage: localStorage.setItem(key, text), or nothing when
\* setItem throws (the catch returns false).
setLocalStorage(store, key, text, writable) ==
  IF writable THEN [store EXCEPT ![key] = text] ELSE store

NoLocation == [lat |-> 0, lng |-> 0, none |-> TRUE]

\* The executor of getCurrentPosition, run by loadUserLocation's call.
getCurrentPosition_ResolveDefault(supported) ==
  IF ~supported THEN [state |-> "fulfilled", value |-> DEFAULT_LOCATION]
  ELSE Pending

getCurrentPosition(supported) ==
  IF ~supported THEN [state |-> "rejected"] ELSE Pending

positionRequests_Twice(supported) == IF supported THEN 2 ELSE 0

\* The calls of navigator.geolocation.getCurrentPosition the executor makes.
positionRequests(supported) == IF supported THEN 1 ELSE 0

LoadUserLocationCall ==
  /\ locPc = "idle"
  /\ geoPromise' = getCurrentPosition(hasGeolocation)
  /\ geoRequest' = IF hasGeolocation THEN "pending" ELSE "none"
  /\ geoRequests' = geoRequests + positionRequests(hasGeolocation)
  /\ locPc' = "await"
  /\ UNCHANGED <<hasGeolocation, storageWritable, storageReadable, localStorage,
                 userLocation>>

\* The success callback.
GeolocationSuccess ==
  /\ geoRequest = "pending"
  /\ \E position \in Positions :
       /\ localStorage' = setLocalStorage(localStorage, USER_LOCATION,
                                          JSONStringify(LocationOf(position)),
                                          storageWritable)
       /\ geoPromise' = [state |-> "fulfilled", value |-> LocationOf(position)]
  /\ geoRequest' = "success"
  /\ UNCHANGED <<hasGeolocation, storageWritable, storageReadable, geoRequests,
                 locPc, userLocation>>

\* The location the error callback resolves with.
errorLocation_Nothing(error) == NoLocation

errorLocation(error) == DEFAULT_LOCATION

\* The error callback.
GeolocationError ==
  /\ geoRequest = "pending"
  /\ \E error \in PositionErrors :
       /\ geoRequest' = error
       /\ geoPromise' = [state |-> "fulfilled", value |-> errorLocation(error)]
  /\ UNCHANGED <<hasGeolocation, storageWritable, storageReadable, localStorage,
                 geoRequests, locPc, userLocation>>

\* loadUserLocation after its await: the assignment, or the catch.
LoadUserLocationResume ==
  /\ locPc = "await"
  /\ geoPromise.state \in {"fulfilled", "rejected"}
  /\ userLocation' = IF geoPromise.state = "fulfilled" THEN geoPromise.value
                     ELSE DEFAULT_LOCATION
  /\ locPc' = "done"
  /\ UNCHANGED <<hasGeolocation, storageWritable, storageReadable, localStorage,
                 geoRequest, geoRequests, geoPromise>>

GeoIdle ==
  /\ hasGeolocation = TRUE
  /\ storageWritable = TRUE
  /\ storageReadable = TRUE
  /\ localStorage = [k \in StorageKeys |-> <<>>]
  /\ geoRequest = "none"
  /\ geoRequests = 0
  /\ geoPromise = NoPromise
  /\ locPc = "idle"
  /\ userLocation = NoLocation

\* The page loads in a browser with or without geolocation, with a storage
\* that accepts writes or not, holding the location of an earlier visit or none.
GeoInputs ==
  /\ hasGeolocation \in BOOLEAN
  /\ storageWritable \in BOOLEAN
  /\ storageReadable = TRUE
  /\ \E text \in {<<>>} \cup {JSONStringify(LocationOf(p)) : p \in Positions} :
       localStorage = [k \in StorageKeys |-> IF k = USER_LOCATION THEN text ELSE <<>>]
  /\ geoRequest = "none"
  /\ geoRequests = 0
  /\ geoPromise = NoPromise
  /\ locPc = "idle"
  /\ userLocation = NoLocation

---------------------------------------------------------------------------
(* GeolocationService.calculateDistance.  Angles are whole degrees, the     *)
(* values of Math.sin, Math.cos, Math.sqrt and the haversine term a are     *)
(* thousandths, Math.atan2 returns thousandths of a radian; every product   *)
(* is cut to that precision.  Math.sin(0), Math.sqrt(0) and                 *)
(* Math.atan2(0, 1) are exactly 0, as in IEEE 754 arithmetic.               *)

\* The value 1 in thousandths.
Unit == 1000

\* Math.sin of 0, 15, ..., 90 degrees.
SinTable == <<0, 259, 500, 707, 866, 966, 1000>>

\* Math.sin of a multiple of 15 degrees.
MathSin(deg) ==
  LET m == deg % 360
  IN IF m <= 90 THEN SinTable[m \div 15 + 1]
     ELSE IF m <= 180 THEN SinTable[(180 - m) \div 15 + 1]
     ELSE IF m <= 270 THEN 0 - SinTable[(m - 180) \div 15 + 1]
     ELSE 0 - SinTable[(360 - m) \div 15 + 1]

MathCos(deg) == MathSin(deg + 90)

\* Math.sqrt of a value in 0..Unit.
MathSqrt(x) == CHOOSE root \in 0..Unit : root * root <= x * Unit /\ x * Unit < (root + 1) * (root + 1)

\* Math.atan of a ratio in 0..Unit: z * (pi/4 + 0.273 * (1 - z)).
MathAtan(z) == (z * (785 + (273 * (Unit - z)) \div Unit)) \div Unit

\* Math.atan2(y, x) for y, x >= 0.
MathAtan2(y, x) ==
  IF y = 0 THEN 0
  ELSE IF y <= x THEN MathAtan((y * Unit) \div x)
  ELSE 1571 - MathAtan((x * Unit) \div y)

\* const a, from twice the half-angles: dLat = lat2 - lat1, dLng = lng2 - lng1.
haversineA(lat1, lat2, dLat, dLng) ==
  (MathSin(dLat \div 2) * MathSin(dLat \div 2)) \div Unit
    + (((MathCos(lat1) * MathCos(lat2)) \div Unit)
         * ((MathSin(dLng \div 2) * MathSin(dLng \div 2)) \div Unit)) \div Unit

\* R * c in metres: R = 6371e3, c = 2 * atan2(sqrt(a), sqrt(1 - a)).
distanceOf(a) == 6371 * (2 * MathAtan2(MathSqrt(a), MathSqrt(Unit - a)))

calculateDistance_FromOrigin(lat1, lng1, lat2, lng2) ==
  distanceOf(haversineA(lat1, lat2, lat2, lng2))

\* GeolocationService.calculateDistance
calculateDistance(lat1, lng1, lat2, lng2) ==
  distanceOf(haversineA(lat1, lat2, lat2 - lat1, lng2 - lng1))

\* The coordinates followed, in degrees.
Latitudes == {-90, -30, 0, 30, 60}
Longitudes == {-180, -60, 0, 30, 150}

DistIdle == distArgs = <<>> /\ distResult = <<>>

DistInputs ==
  /\ distArgs \in Latitudes \X Longitudes \X Latitudes \X Longitudes
  /\ distResult = <<>>

CalculateDistance ==
  /\ distResult = <<>>
  /\ distResult' = <<calculateDistance(distArgs[1], distArgs[2], distArgs[3], distArgs[4])>>
  /\ UNCHANGED distArgs

---------------------------------------------------------------------------
(* Time.  Instants are milliseconds; instant 0 is the local midnight that  *)
(* starts a Monday.  Date.now() is timeOrigin + now.                       *)

\* 24 * 60 * 60 * 1000
DayMs == 86400000

DateNow(origin, elapsed) == origin + elapsed

\* Date.prototype.toISOString: the text of an instant.
toISOString(t) == <<"ISO", t>>

\* new Date(text): <<t>>, or <<>> (Invalid Date) for a text that is no date.
NewDate(text) == IF text[1] = "ISO" THEN <<text[2]>> ELSE <<>>

\* The calendar day of an instant, which toDateString prints.
toDateString(t) == t \div DayMs

\* Date.prototype.getDay: 0 is Sunday, 6 is Saturday.
getDay(t) == ((t \div DayMs) + 1) % 7

---------------------------------------------------------------------------
(* Stored data.  A JavaScript value read from storage is a record with its *)
(* kind; a stored string is the sequence of its tokens (<<"">> is the      *)
(* empty string).                                                          *)

Null == [kind |-> "null"]
EmptyObject == [kind |-> "object"]
Array(items) == [kind |-> "array", items |-> items]

\* JSON.stringify of a list.
JSONStringifyArray(items) == <<"[">> \o items \o <<"]">>

\* JSON.parse of a stored string: SyntaxError on a text that is not JSON.
JSONParseValue(text) ==
  IF text[1] = "null" THEN Ok(Null)
  ELSE IF text[1] = "{" /\ text[Len(text)] = "}" THEN Ok(EmptyObject)
  ELSE IF text[1] = "[" /\ text[Len(text)] = "]"
    THEN Ok(Array(SubSeq(text, 2, Len(text) - 1)))
  ELSE Thrown

\* The try block of Utils.getLocalStorage: item ? JSON.parse(item) : defaultValue.
getLocalStorageTry(store, key, defaultValue, readable) ==
  IF ~readable THEN Thrown
  ELSE IF store[key] = <<>> \/ store[key] = <<"">> THEN Ok(defaultValue)
  ELSE JSONParseValue(store[key])

getLocalStorage_NoCatch(store, key, defaultValue, readable) ==
  getLocalStorageTry(store, key, defaultValue, readable)

\* Utils.getLocalStorage: the catch returns defaultValue.
getLocalStorage(store, key, defaultValue, readable) ==
  IF getLocalStorageTry(store, key, defaultValue, readable).threw
    THEN Ok(defaultValue)
  ELSE getLocalStorageTry(store, key, defaultValue, readable)

\* An event object; location is <<>> when the object has no such property.
Event(id, date, participants, maxParticipants) ==
  [id |-> id, date |-> date, location |-> <<"SF">>, participants |-> participants,
   maxParticipants |-> maxParticipants]

\* const defaultEvents, built at instant t.
defaultEvents(t) ==
  << Event("event_1", toISOString(t + DayMs), 12, 25),
     Event("event_2", toISOString(t + 3 * DayMs), 8, 20),
     Event("event_3", toISOString(t + 5 * DayMs), 15, 30) >>

Crew(id, members, cleanups) == [id |-> id, members |-> members, cleanups |-> cleanups]

\* const defaultCrews
defaultCrews == << Crew("crew_1", 24, 8), Crew("crew_2", 18, 12), Crew("crew_3", 31, 15) >>

\* DataManager.getCleanupEvents called at instant t.
getCleanupEvents(store, readable, t) ==
  getLocalStorage(store, CLEANUP_EVENTS, Array(defaultEvents(t)), readable)

\* DataManager.getCrews
getCrews(store, readable) ==
  getLocalStorage(store, CREW_DATA, Array(defaultCrews), readable)

\* Utils.generateId at instant t, Math.random drawing r:
\* `id_${Date.now()}_${...}`.
generateId(t, r) == "id_" \o ToString(t) \o "_" \o ToString(r)

\* { ...event, id: Utils.generateId() }
withNewId(event, t, r) == [event EXCEPT !.id = generateId(t, r)]

\* What DataManager.addCleanupEvent(event) returns: events.push throws a
\* TypeError when getCleanupEvents() returned null or an object.
addCleanupEvent(store, readable, event, t, r) ==
  IF getCleanupEvents(store, readable, t).value.kind # "array" THEN Thrown
  ELSE Ok(Array(Append(getCleanupEvents(store, readable, t).value.items,
                       withNewId(event, t, r))))

\* The storage addCleanupEvent leaves.
addCleanupEventStore(store, readable, writable, event, t, r) ==
  IF addCleanupEvent(store, readable, event, t, r).threw THEN store
  ELSE setLocalStorage(store, CLEANUP_EVENTS,
                       JSONStringifyArray(addCleanupEvent(store, readable, event, t, r)
                                            .value.items),
                       writable)

---------------------------------------------------------------------------
(* ShoreSquadApp.init: an async function, one step per await.  The page    *)
(* has the containers the render methods look up (#weather-widget,         *)
(* #cleanup-map, #crew-list and the three statistics).                     *)

InitStepNames ==
  <<"setupEventListeners", "loadUserLocation", "loadWeatherData", "loadData",
    "render", "initializeAnimations">>

InitFailedMessage == "Failed to initialize app. Please refresh the page."

\* showNotification(message, type)
Notification(message, type) == [message |-> message, type |-> type]

\* setTimeout(closeNotification, 5000)
AUTO_CLOSE_DELAY == 5000

\* The delay of the timer closeNotification starts.
REMOVE_DELAY == 300

\* What showNotification called at instant t adds to the page: the element,
\* appended to document.body, and the auto-close timer.  closing holds the
\* due instants of the removal timers that closeNotification has started,
\* removed counts the removeChild calls made on the element, errors those
\* that threw.
showNotification(t) ==
  [shownAt |-> t, inDocument |-> TRUE, autoClose |-> <<t + AUTO_CLOSE_DELAY>>,
   closing |-> <<>>, removed |-> 0, errors |-> 0]

\* closeNotification() at instant t: the slide-out, and a removal timer.
closeNotification(note, t) == [note EXCEPT !.closing = Append(@, t + REMOVE_DELAY)]

removeNotification_Unguarded(note) ==
  IF note.inDocument THEN [note EXCEPT !.inDocument = FALSE, !.removed = @ + 1]
  ELSE [note EXCEPT !.errors = @ + 1]

\* The callback of the removal timer:
\* if (notification.parentNode) notification.parentNode.removeChild(notification).
removeNotification(note) ==
  IF note.inDocument THEN [note EXCEPT !.inDocument = FALSE, !.removed = @ + 1]
  ELSE note

\* loadData: the two assignments, then the log line reads both .length.
loadDataThrows(events, crewsValue) == events.kind = "null" \/ crewsValue.kind = "null"

\* UIComponents.createEventCard: event.location.name (and .lat) throws a
\* TypeError on an event without location, Intl.DateTimeFormat.format a
\* RangeError on an invalid date.
createEventCardThrows(event) == event.location = <<>> \/ NewDate(event.date) = <<>>

\* The card of an event, with its join button.
createEventCard(event) == [event |-> event, joined |-> FALSE]

\* The cards of a list of events.
EventCards(items) == [i \in 1..Len(items) |-> createEventCard(items[i])]

\* renderEvents: this.cleanupEvents.map(...) throws when cleanupEvents is no
\* list or a card cannot be built.
renderEventsThrows(events) ==
  \/ events.kind # "array"
  \/ \E i \in 1..Len(events.items) : createEventCardThrows(events.items[i])

createCrewCard(crew) == [crew |-> crew, joined |-> FALSE]

\* renderCrews: this.crews.length > 0 throws on null and is false on an object.
renderCrewsThrows(crewsValue) == crewsValue.kind = "null"

renderCrews(crewsValue, shown) ==
  IF crewsValue.kind = "array" /\ Len(crewsValue.items) > 0
    THEN [i \in 1..Len(crewsValue.items) |-> createCrewCard(crewsValue.items[i])]
  ELSE shown

\* renderStats: this.crews.reduce is not a function unless crews is a list.
renderStatsThrows(crewsValue) == crewsValue.kind # "array"

\* render(): renderWeather, renderEvents, renderCrews, renderStats.
renderThrows(events, crewsValue) ==
  renderEventsThrows(events) \/ renderCrewsThrows(crewsValue)
    \/ renderStatsThrows(crewsValue)

\* initializeAnimations: new IntersectionObserver(...) is a ReferenceError
\* where the constructor is missing.
initializeAnimationsThrows(hasObserver) == ~hasObserver

\* The steps of init after the last await that run to completion.
tailSteps(events, crewsValue, hasObserver) ==
  IF loadDataThrows(events, crewsValue) THEN <<>>
  ELSE IF renderThrows(events, crewsValue) THEN <<"loadData">>
  ELSE IF initializeAnimationsThrows(hasObserver) THEN <<"loadData", "render">>
  ELSE <<"loadData", "render", "initializeAnimations">>

\* The try block of init from loadData on.
initTry(events, crewsValue, hasObserver) ==
  IF Len(tailSteps(events, crewsValue, hasObserver)) < 3 THEN Thrown ELSE Ok("undefined")

\* What loadData, render and initializeAnimations leave on the page that
\* showed the cards shownEvents and shownCrews.
initTail(events, crewsValue, hasObserver, shownEvents, shownCrews) ==
  [steps |-> tailSteps(events, crewsValue, hasObserver),
   outcome |-> initTry(events, crewsValue, hasObserver),
   mapCards |-> IF loadDataThrows(events, crewsValue) \/ renderEventsThrows(events)
                  THEN shownEvents
                ELSE EventCards(events.items),
   crewCards |-> IF Len(tailSteps(events, crewsValue, hasObserver)) < 2
                   THEN shownCrews
                 ELSE renderCrews(crewsValue, shownCrews)]

initCatch_Rethrow(outcome) == outcome

\* catch (error) { ...; this.showErrorMessage(...) }
initCatch(outcome) == Ok("undefined")

\* The notifications init adds.
initNotifications(outcome) ==
  IF outcome.threw THEN <<Notification(InitFailedMessage, "error")>> ELSE <<>>

\* Their elements and timers, init ending at instant t.
initNotices(outcome, t) == IF outcome.threw THEN <<showNotification(t)>> ELSE <<>>

\* await this.loadUserLocation(): init goes on once that promise is settled.
loadUserLocationSettled_NoAwait(pc) == TRUE

loadUserLocationSettled(pc) == pc = "done"

\* init() up to its first await: setupEventListeners, then loadUserLocation
\* up to its await.
InitCall ==
  /\ initPc = "new"
  /\ LoadUserLocationCall
  /\ initPc' = "awaitLocation"
  /\ initPromise' = Pending
  /\ initSteps' = <<"setupEventListeners">>
  /\ UNCHANGED <<hasIntersectionObserver, weatherPc, weatherData, cleanupEvents,
                 crews, notified, notices, mapCards, crewCards>>

\* init after the first await: loadWeatherData up to its await, which is
\* getCurrentWeather up to its first await.
InitResumeLocation ==
  /\ initPc = "awaitLocation"
  /\ loadUserLocationSettled(locPc)
  /\ GetCurrentWeatherCall
  /\ weatherPc' = "await"
  /\ initPc' = "awaitWeather"
  /\ initSteps' = Append(initSteps, "loadUserLocation")
  /\ UNCHANGED <<hasIntersectionObserver, initPromise, weatherData, cleanupEvents,
                 crews, notified, notices, mapCards, crewCards>>

loadWeatherData_FallbackAlways(promise, r) == getFallbackWeatherData(r)

\* loadWeatherData after its await: the assignment, or the catch.
loadWeatherData(promise, r) ==
  IF promise.state = "fulfilled" THEN promise.value ELSE getFallbackWeatherData(r)

LoadWeatherDataResume ==
  /\ weatherPc = "await"
  /\ weatherPromise.state \in {"fulfilled", "rejected"}
  /\ \E r \in RandomDraws : weatherData' = <<loadWeatherData(weatherPromise, r)>>
  /\ weatherPc' = "done"
  /\ UNCHANGED <<hasIntersectionObserver, initPc, initPromise, initSteps,
                 cleanupEvents, crews, notified, notices, mapCards, crewCards>>

loadWeatherDataSettled_NoAwait(pc) == TRUE

\* await this.loadWeatherData(): init goes on once that promise is settled.
loadWeatherDataSettled(pc) == pc = "done"

\* init after the second await: loadData, render, initializeAnimations, or
\* the catch from the step that throws.
InitResumeWeather ==
  /\ initPc = "awaitWeather"
  /\ loadWeatherDataSettled(weatherPc)
  /\ LET events == getCleanupEvents(localStorage, storageReadable,
                                    DateNow(timeOrigin, now)).value
         crewsValue == getCrews(localStorage, storageReadable).value
         tail == initTail(events, crewsValue, hasIntersectionObserver, mapCards,
                          crewCards)
     IN /\ cleanupEvents' = events
        /\ crews' = crewsValue
        /\ mapCards' = tail.mapCards
        /\ crewCards' = tail.crewCards
        /\ initSteps' = initSteps \o <<"loadWeatherData">> \o tail.steps
        /\ notified' = notified \o initNotifications(tail.outcome)
        /\ notices' = notices \o initNotices(tail.outcome, now)
        /\ initPromise' = Settle(initCatch(tail.outcome))
  /\ initPc' = "done"
  /\ UNCHANGED <<hasIntersectionObserver, weatherPc, weatherData>>

---------------------------------------------------------------------------
(* The filter buttons, the debounced handleFilterChange and the join       *)
(* buttons.  A timer callback runs at the instant it falls due.            *)

\* CONFIG.DEBOUNCE_DELAY
DEBOUNCE_DELAY == 300

\* The data-filter values of the filter buttons.
FilterTokens == {"all", "today", "weekend", "upcoming"}

\* A filter button; button.dataset.filter is its filter field.
FilterButtons == {[filter |-> token] : token \in FilterTokens}

debounce_KeepFirst(timer, t, args) ==
  IF timer # <<>> THEN timer ELSE <<[due |-> t + DEBOUNCE_DELAY, args |-> args]>>

\* executedFunction(...args) of Utils.debounce at instant t:
\* clearTimeout(timeout); timeout = setTimeout(later, wait).
debounce(timer, t, args) == <<[due |-> t + DEBOUNCE_DELAY, args |-> args]>>

keepEvent_UpcomingFromToday(event, filters, t) ==
  IF "all" \in filters THEN TRUE
  ELSE IF NewDate(event.date) = <<>> THEN FALSE
  ELSE IF "today" \in filters
    THEN toDateString(NewDate(event.date)[1]) = toDateString(t)
  ELSE IF "weekend" \in filters THEN getDay(NewDate(event.date)[1]) \in {0, 6}
  ELSE toDateString(NewDate(event.date)[1]) >= toDateString(t)

\* The callback of this.cleanupEvents.filter in renderFilteredEvents, with
\* now = t.  Every comparison with an Invalid Date is false.
keepEvent(event, filters, t) ==
  IF "all" \in filters THEN TRUE
  ELSE IF "today" \in filters
    THEN /\ NewDate(event.date) # <<>>
         /\ toDateString(NewDate(event.date)[1]) = toDateString(t)
  ELSE IF "weekend" \in filters
    THEN /\ NewDate(event.date) # <<>>
         /\ getDay(NewDate(event.date)[1]) \in {0, 6}
  ELSE IF "upcoming" \in filters
    THEN /\ NewDate(event.date) # <<>>
         /\ NewDate(event.date)[1] > t
  ELSE TRUE

\* const filteredEvents
filteredEvents(items, filters, t) ==
  LET Keep(event) == keepEvent(event, filters, t) IN SelectSeq(items, Keep)

\* renderFilteredEvents: cleanupEvents.filter throws when cleanupEvents is no
\* list, createEventCard on a kept event that is malformed.
renderFilteredEventsThrows(events, filters, t) ==
  \/ events.kind # "array"
  \/ \E i \in 1..Len(filteredEvents(events.items, filters, t)) :
       createEventCardThrows(filteredEvents(events.items, filters, t)[i])

\* The cards renderFilteredEvents leaves in #cleanup-map.
renderFilteredEvents(events, filters, t, shown) ==
  IF renderFilteredEventsThrows(events, filters, t) THEN shown
  ELSE EventCards(filteredEvents(events.items, filters, t))

\* The clicks followed between two runs of the handler.
MaxClicks == 3

\* A click on a filter button: the listener calls the debounced handler.
FilterClick ==
  /\ initPc # "new"
  /\ debounceTimer # <<>> => lastClick[1].clicks < MaxClicks
  /\ \E button \in FilterButtons :
       /\ debounceTimer' = debounce(debounceTimer, now,
                                    [filter |-> button.filter, button |-> button])
       /\ lastClick' = <<[at |-> now, button |-> button, runs |-> 0,
                          clicks |-> IF debounceTimer = <<>> THEN 1
                                     ELSE lastClick[1].clicks + 1]>>
  /\ UNCHANGED <<timeOrigin, now, activeFilters, activeButtons>>

\* later(): handleFilterChange(filter, button).
HandleFilterChange ==
  /\ debounceTimer # <<>>
  /\ debounceTimer[1].due = now
  /\ activeButtons' = {debounceTimer[1].args.button}
  /\ activeFilters' = {debounceTimer[1].args.filter}
  /\ mapCards' = renderFilteredEvents(cleanupEvents, {debounceTimer[1].args.filter},
                                      DateNow(timeOrigin, now), mapCards)
  /\ debounceTimer' = <<>>
  /\ lastClick' = <<[lastClick[1] EXCEPT !.runs = @ + 1]>>
  /\ UNCHANGED <<timeOrigin, now, notified, notices, crewCards>>

\* The longest time followed after the page load.
MaxElapsed == 600

\* The notifications shown in one run.
MaxNotifications == 2

\* The amounts of time that pass in one step.
TickSteps == {100, 200, 300}

\* The handlers the constructor wraps with Utils.throttle, and their limits.
Throttled == {"scroll", "resize"}

ThrottleLimit == [scroll |-> 100, resize |-> 250]

\* The due instants of the pending timers: the debounce timer, the timers
\* that clear a throttle flag, and the timers of the notifications.
PendingDues ==
  {debounceTimer[i].due : i \in 1..Len(debounceTimer)}
    \cup {inThrottle[h][1] : h \in {k \in Throttled : inThrottle[k] # <<>>}}
    \cup UNION {{notices[i].autoClose[j] : j \in 1..Len(notices[i].autoClose)}
                  \cup {notices[i].closing[j] : j \in 1..Len(notices[i].closing)} :
                i \in 1..Len(notices)}

\* Time passes, up to the instant the next pending timer falls due.
Tick ==
  /\ \E d \in TickSteps :
       /\ now + d <= MaxElapsed
       /\ \A due \in PendingDues : now + d <= due
       /\ now' = now + d
  /\ UNCHANGED <<timeOrigin, activeFilters, activeButtons, debounceTimer, lastClick>>

\* Time passes until the next pending timer falls due.
Wait ==
  /\ PendingDues # {}
  /\ \A due \in PendingDues : now < due
  /\ \E next \in PendingDues :
       /\ \A due \in PendingDues : next <= due
       /\ now' = next
  /\ UNCHANGED <<timeOrigin, activeFilters, activeButtons, debounceTimer, lastClick>>

\* The button of a card after handleJoinEvent / handleJoinCrew: textContent
\* 'Joined', disabled = true.
joinButton_Nothing(card) == card

joinButton(card) == [card EXCEPT !.joined = TRUE]

\* A click on the enabled join button of an event card: handleButtonClicks
\* dispatches to handleJoinEvent.
HandleJoinEvent ==
  /\ initPc # "new"
  /\ Len(notified) < MaxNotifications
  /\ \E i \in 1..Len(mapCards) :
       /\ ~mapCards[i].joined
       /\ mapCards' = [mapCards EXCEPT ![i] = joinButton(mapCards[i])]
  /\ notified' = Append(notified,
                        Notification("Successfully joined the cleanup event!", "success"))
  /\ notices' = Append(notices, showNotification(now))
  /\ UNCHANGED crewCards

\* A click on the enabled join button of a crew card: handleJoinCrew.
HandleJoinCrew ==
  /\ initPc # "new"
  /\ Len(notified) < MaxNotifications
  /\ \E i \in 1..Len(crewCards) :
       /\ ~crewCards[i].joined
       /\ crewCards' = [crewCards EXCEPT ![i] = joinButton(crewCards[i])]
  /\ notified' = Append(notified, Notification("Welcome to the crew!", "success"))
  /\ notices' = Append(notices, showNotification(now))
  /\ UNCHANGED mapCards

---------------------------------------------------------------------------
(* Notifications: the close button and the timers of showNotification *)

\* The clicks on the close button of one notification while it is shown.
MaxCloseClicks == 2

\* A click on the close button of a notification that is in the document.
CloseClick ==
  /\ \E i \in 1..Len(notices) :
       /\ notices[i].inDocument
       /\ Len(notices[i].closing) < MaxCloseClicks
       /\ notices' = [notices EXCEPT ![i] = closeNotification(notices[i], now)]
  /\ UNCHANGED <<notified, mapCards, crewCards>>

\* The auto-close timer of a notification falls due: closeNotification().
AutoClose ==
  /\ \E i \in 1..Len(notices) :
       /\ notices[i].autoClose = <<now>>
       /\ notices' = [notices EXCEPT
                        ![i] = closeNotification([notices[i] EXCEPT !.autoClose = <<>>],
                                                 now)]
  /\ UNCHANGED <<notified, mapCards, crewCards>>

\* A removal timer of a notification falls due.
RemoveTimeout ==
  /\ \E i \in 1..Len(notices) :
       \E j \in 1..Len(notices[i].closing) :
         /\ notices[i].closing[j] = now
         /\ notices' =
              [notices EXCEPT
                 ![i] = [removeNotification(notices[i]) EXCEPT
                           !.closing = SubSeq(@, 1, j - 1) \o SubSeq(@, j + 1, Len(@))]]
  /\ UNCHANGED <<notified, mapCards, crewCards>>

---------------------------------------------------------------------------
(* The window: the throttled scroll and resize handlers and the nav toggle *)

\* if (!inThrottle): whether the wrapper calls the handler.
throttleRuns(flag) == flag = <<>>

throttle_Restart(flag, t, limit) == <<t + limit>>

\* The flag after an event at instant t: inThrottle = true and
\* setTimeout(() => inThrottle = false, limit) when the handler was called.
throttle(flag, t, limit) == IF throttleRuns(flag) THEN <<t + limit>> ELSE flag

\* handleScroll: header.classList.toggle('header--scrolled', scrollY > 50)
handleScroll(y) == y > 50

\* handleResize: the menu loses nav__menu--open when innerWidth > 768.
handleResize(width, open) == IF width > 768 THEN FALSE ELSE open

\* handleNavToggle: the class is toggled and aria-expanded set to !isOpen.
handleNavToggle(open, expanded) == [menuOpen |-> ~open, ariaExpanded |-> ~open]

\* The scroll positions and the window widths followed.
ScrollPositions == {0, 50, 51}

Widths == {768, 769}

\* A scroll event at a new scroll position.
ScrollEvent ==
  /\ initPc # "new"
  /\ \E y \in ScrollPositions :
       /\ scrollY' = y
       /\ headerScrolled' = IF throttleRuns(inThrottle.scroll) THEN handleScroll(y)
                            ELSE headerScrolled
  /\ lastRun' = IF throttleRuns(inThrottle.scroll)
                  THEN [lastRun EXCEPT !.scroll = <<now>>]
                ELSE lastRun
  /\ inThrottle' = [inThrottle EXCEPT !.scroll = throttle(@, now, ThrottleLimit.scroll)]
  /\ UNCHANGED <<innerWidth, menuOpen, ariaExpanded>>

\* A resize event at a new window width.
ResizeEvent ==
  /\ initPc # "new"
  /\ \E width \in Widths :
       /\ innerWidth' = width
       /\ menuOpen' = IF throttleRuns(inThrottle.resize) THEN handleResize(width, menuOpen)
                      ELSE menuOpen
  /\ lastRun' = IF throttleRuns(inThrottle.resize)
                  THEN [lastRun EXCEPT !.resize = <<now>>]
                ELSE lastRun
  /\ inThrottle' = [inThrottle EXCEPT !.resize = throttle(@, now, ThrottleLimit.resize)]
  /\ UNCHANGED <<scrollY, headerScrolled, ariaExpanded>>

\* The timer of a throttle wrapper falls due: inThrottle = false.
ThrottleTimeout ==
  /\ \E h \in Throttled :
       /\ inThrottle[h] = <<now>>
       /\ inThrottle' = [inThrottle EXCEPT ![h] = <<>>]
  /\ UNCHANGED <<scrollY, innerWidth, headerScrolled, menuOpen, ariaExpanded, lastRun>>

\* A click on the nav toggle.
NavToggleClick ==
  /\ initPc # "new"
  /\ menuOpen' = handleNavToggle(menuOpen, ariaExpanded).menuOpen
  /\ ariaExpanded' = handleNavToggle(menuOpen, ariaExpanded).ariaExpanded
  /\ UNCHANGED <<scrollY, innerWidth, headerScrolled, inThrottle, lastRun>>

\* The window when the page is loaded: at the top, the menu closed, no
\* throttled handler called yet.
WindowInputs ==
  /\ scrollY = 0
  /\ innerWidth \in Widths
  /\ headerScrolled = FALSE
  /\ menuOpen = FALSE
  /\ ariaExpanded = FALSE
  /\ inThrottle = [h \in Throttled |-> <<>>]
  /\ lastRun = [h \in Throttled |-> <<>>]

WindowIdle == WindowInputs /\ innerWidth = 768

\* The page as the constructor of ShoreSquadApp leaves it.
Constructed ==
  /\ initPc = "new"
  /\ initPromise = NoPromise
  /\ initSteps = <<>>
  /\ weatherPc = "idle"
  /\ weatherData = <<>>
  /\ cleanupEvents = Array(<<>>)
  /\ crews = Array(<<>>)
  /\ notified = <<>>
  /\ notices = <<>>
  /\ mapCards = <<>>
  /\ crewCards = <<>>
  /\ now = 0
  /\ activeFilters = {"all"}
  /\ activeButtons = {[filter |-> "all"]}
  /\ debounceTimer = <<>>
  /\ lastClick = <<>>

DataIdle == dmCall = "none" /\ dmResult = <<>> /\ dmLog = <<>> /\ fallbackResults = <<>>

PageIdle ==
  /\ hasIntersectionObserver = TRUE
  /\ timeOrigin = 0
  /\ Constructed
  /\ DataIdle
  /\ DistIdle
  /\ WindowIdle

---------------------------------------------------------------------------
(* Inputs of the page: the wall clock at the load and what storage holds   *)

\* Friday 12:00:00.000
FridayNoon == 4 * DayMs + DayMs \div 2

\* Friday noon, and Saturday 23:59:59.800.
TimeOrigins == {FridayNoon, 6 * DayMs - 200}

\* The known dates of stored events: Friday 00:00:00.100, Friday
\* 12:00:00.300, Saturday 23:59:59.900, Sunday 00:00:00.000 and Monday
\* 00:00:00.001.
KnownDates ==
  {toISOString(4 * DayMs + 100), toISOString(FridayNoon + 300),
   toISOString(6 * DayMs - 100), toISOString(6 * DayMs), toISOString(7 * DayMs + 1)}

\* The date properties of stored events: a known date, or a text that is no date.
EventDates == KnownDates \cup {<<"soon">>}

\* The longest stored list of events.
MaxEvents == 2

EventIds == <<"event_a", "event_b", "event_c", "event_d">>

\* The lists of at most maxEvents events with dates from eventDates.
EventLists(eventDates, maxEvents) ==
  UNION {{[i \in 1..n |-> Event(EventIds[i], dates[i], 3 + i, 10)] :
            dates \in [1..n -> eventDates]} : n \in 0..maxEvents}

\* An event object without location.
NoLocationEvent == [Event("event_x", toISOString(FridayNoon), 1, 5) EXCEPT !.location = <<>>]

\* Stored strings that hold no list: the empty string, two texts that are
\* not JSON, null and an object.
NoListTexts == {<<"">>, <<"not json">>, <<"[">>, <<"null">>, <<"{", "}">>}

\* What the CLEANUP_EVENTS key may hold (<<>>: nothing).
StoredEventTexts ==
  {<<>>} \cup NoListTexts \cup {JSONStringifyArray(l) : l \in EventLists(EventDates, 1)}
    \cup {JSONStringifyArray(<<NoLocationEvent>>)}

\* What the CREW_DATA key may hold.
StoredCrewTexts ==
  {<<>>} \cup NoListTexts
    \cup {JSONStringifyArray(<<>>), JSONStringifyArray(<<Crew("crew_a", 5, 2)>>)}

\* The storage holding the given texts under the two data keys.
Stored(eventsText, crewsText) ==
  [k \in StorageKeys |-> IF k = CLEANUP_EVENTS THEN eventsText
                         ELSE IF k = CREW_DATA THEN crewsText ELSE <<>>]

---------------------------------------------------------------------------
(* DataManager applied to every storage content *)

\* The calls of DataManager followed in one run.
MaxCalls == 3

\* The entry of dmLog for a call made now.
Logged(call, outcome) == [call |-> call, at |-> now, outcome |-> outcome]

GetCleanupEvents ==
  /\ Len(dmLog) < MaxCalls
  /\ dmCall' = "getCleanupEvents"
  /\ dmResult' = <<getCleanupEvents(localStorage, storageReadable,
                                    DateNow(timeOrigin, now))>>
  /\ dmLog' = Append(dmLog, Logged("getCleanupEvents", dmResult'[1]))
  /\ UNCHANGED fallbackResults

GetCrews ==
  /\ Len(dmLog) < MaxCalls
  /\ dmCall' = "getCrews"
  /\ dmResult' = <<getCrews(localStorage, storageReadable)>>
  /\ dmLog' = Append(dmLog, Logged("getCrews", dmResult'[1]))
  /\ UNCHANGED fallbackResults

\* The events passed to addCleanupEvent.
NewEvents == {Event("draft", toISOString(6 * DayMs), 0, 10)}

\* DataManager.addCleanupEvent(event)
AddCleanupEvent ==
  /\ Len(dmLog) < MaxCalls
  /\ \E event \in NewEvents, r \in RandomDraws :
       /\ dmResult' = <<addCleanupEvent(localStorage, storageReadable, event,
                                        DateNow(timeOrigin, now), r)>>
       /\ localStorage' = addCleanupEventStore(localStorage, storageReadable,
                                               storageWritable, event,
                                               DateNow(timeOrigin, now), r)
  /\ dmCall' = "addCleanupEvent"
  /\ dmLog' = Append(dmLog, Logged("addCleanupEvent", dmResult'[1]))
  /\ UNCHANGED <<fallbackResults, hasGeolocation, storageWritable, storageReadable,
                 geoRequest, geoRequests, geoPromise, locPc, userLocation>>

DataInputs ==
  /\ hasGeolocation = TRUE
  /\ storageWritable = TRUE
  /\ storageReadable \in BOOLEAN
  /\ \E eventsText \in StoredEventTexts, crewsText \in StoredCrewTexts :
       localStorage = Stored(eventsText, crewsText)
  /\ geoRequest = "none"
  /\ geoRequests = 0
  /\ geoPromise = NoPromise
  /\ locPc = "idle"
  /\ userLocation = NoLocation
  /\ hasIntersectionObserver = TRUE
  /\ timeOrigin \in TimeOrigins
  /\ Constructed
  /\ DataIdle

---------------------------------------------------------------------------
(* The failure path of getCurrentWeather, invoked repeatedly at one instant *)

\* The invocations followed.
MaxInvocations == 2

FailurePath ==
  /\ Len(fallbackResults) < MaxInvocations
  /\ \E failure \in FetchFailures, r \in RandomDraws :
       fallbackResults' =
         Append(fallbackResults,
                [failure |-> failure, bundle |-> getCurrentWeatherCatch(Thrown, r).value])
  /\ UNCHANGED <<dmCall, dmResult, dmLog>>

FallbackInputs ==
  /\ hasIntersectionObserver = TRUE
  /\ timeOrigin \in TimeOrigins
  /\ Constructed
  /\ DataIdle

---------------------------------------------------------------------------
(* Specifications *)

\* determineCondition on drawn readings.
InitCondition == CondInputs /\ FormatIdle /\ WeatherIdle /\ GeoIdle /\ PageIdle
NextCondition == DetermineCondition /\ UNCHANGED <<fmtVars, weatherVars, geoVars, pageVars>>
SpecCondition == InitCondition /\ [][NextCondition]_vars

\* formatCurrentWeather and formatForecastData on drawn payloads.
InitFormat == CondIdle /\ FormatInputs /\ WeatherIdle /\ GeoIdle /\ PageIdle
NextFormat ==
  \/ FormatCurrentWeather /\ UNCHANGED <<condVars, weatherVars, geoVars, pageVars>>
  \/ FormatForecastData /\ UNCHANGED <<condVars, weatherVars, geoVars, pageVars>>
SpecFormat == InitFormat /\ [][NextFormat]_vars

\* One call of getCurrentWeather.
Init == CondIdle /\ FormatIdle /\ WeatherIdle /\ GeoIdle /\ PageIdle
Next ==
  \/ GetCurrentWeatherCall /\ UNCHANGED <<condVars, fmtVars, geoVars, pageVars>>
  \/ FetchRealtimeWeatherFails /\ UNCHANGED <<condVars, fmtVars, geoVars, pageVars>>
  \/ FetchRealtimeWeatherOk /\ UNCHANGED <<condVars, fmtVars, geoVars, pageVars>>
  \/ Fetch4DayForecastFails /\ UNCHANGED <<condVars, fmtVars, geoVars, pageVars>>
  \/ Fetch4DayForecastOk /\ UNCHANGED <<condVars, fmtVars, geoVars, pageVars>>
Spec == Init /\ [][Next]_vars

\* One call of loadUserLocation.
InitGeo == CondIdle /\ FormatIdle /\ WeatherIdle /\ GeoInputs /\ PageIdle
NextGeo ==
  \/ LoadUserLocationCall /\ UNCHANGED <<condVars, fmtVars, weatherVars, pageVars>>
  \/ GeolocationSuccess /\ UNCHANGED <<condVars, fmtVars, weatherVars, pageVars>>
  \/ GeolocationError /\ UNCHANGED <<condVars, fmtVars, weatherVars, pageVars>>
  \/ LoadUserLocationResume /\ UNCHANGED <<condVars, fmtVars, weatherVars, pageVars>>
SpecGeo == InitGeo /\ [][NextGeo]_vars

\* DataManager.getCleanupEvents and getCrews on every storage content.
InitData == CondIdle /\ FormatIdle /\ WeatherIdle /\ DataInputs /\ DistIdle /\ WindowIdle
NextData ==
  \/ GetCleanupEvents /\ dmCall = "none" /\ UNCHANGED <<condVars, fmtVars, weatherVars, geoVars, appVars, uiVars, distVars, windowVars>>
  \/ GetCrews /\ dmCall = "none" /\ UNCHANGED <<condVars, fmtVars, weatherVars, geoVars, appVars, uiVars, distVars, windowVars>>
SpecData == InitData /\ [][NextData]_vars

\* The failure path of getCurrentWeather, invoked repeatedly.
InitFallback == CondIdle /\ FormatIdle /\ WeatherIdle /\ GeoIdle /\ FallbackInputs /\ DistIdle /\ WindowIdle
NextFallback ==
  FailurePath /\ UNCHANGED <<condVars, fmtVars, weatherVars, geoVars, appVars, uiVars, distVars, windowVars>>
SpecFallback == InitFallback /\ [][NextFallback]_vars

\* A page whose init has completed: geolocation was not supported, the
\* realtime request was rejected, storage holds a list of events with known
\* dates and no crews.
GeoDone ==
  /\ hasGeolocation = FALSE
  /\ storageWritable = TRUE
  /\ storageReadable = TRUE
  /\ geoRequest = "none"
  /\ geoRequests = 0
  /\ geoPromise = getCurrentPosition(FALSE)
  /\ locPc = "done"
  /\ userLocation = DEFAULT_LOCATION

WeatherDone ==
  /\ wpc = "returned"
  /\ realtimeFetch = "rejected"
  /\ forecastFetch = "none"
  /\ realtimeData = <<>>
  /\ forecastData = <<>>
  /\ weatherPromise = Settle(getCurrentWeatherCatch(Thrown, 0))
  /\ fetchLog = fetchRealtimeWeather(<<>>)

LoadedInputs ==
  /\ GeoDone
  /\ \E list \in EventLists(KnownDates, MaxEvents) :
       LET tail == initTail(Array(list), Array(defaultCrews), TRUE, <<>>, <<>>)
       IN /\ localStorage = Stored(JSONStringifyArray(list), <<>>)
          /\ cleanupEvents = Array(list)
          /\ crews = Array(defaultCrews)
          /\ initSteps = SubSeq(InitStepNames, 1, 3) \o tail.steps
          /\ initPromise = Settle(initCatch(tail.outcome))
          /\ notified = initNotifications(tail.outcome)
          /\ notices = initNotices(tail.outcome, 0)
          /\ mapCards = tail.mapCards
          /\ crewCards = tail.crewCards
  /\ hasIntersectionObserver = TRUE
  /\ initPc = "done"
  /\ weatherPc = "done"
  /\ weatherData = <<getFallbackWeatherData(0)>>
  /\ timeOrigin \in TimeOrigins
  /\ now = 0
  /\ activeFilters = {"all"}
  /\ activeButtons = {[filter |-> "all"]}
  /\ debounceTimer = <<>>
  /\ lastClick = <<>>
  /\ DataIdle

\* The filter buttons on a loaded page, with the passing of time.
InitFilter == CondIdle /\ FormatIdle /\ WeatherDone /\ LoadedInputs /\ DistIdle /\ WindowIdle
NextFilter ==
  \/ FilterClick
       /\ UNCHANGED <<condVars, fmtVars, weatherVars, geoVars, appVars, dataVars, distVars, windowVars>>
  \/ HandleFilterChange
       /\ UNCHANGED <<condVars, fmtVars, weatherVars, geoVars, initVars, dataVars, distVars, windowVars>>
  \/ Tick /\ UNCHANGED <<condVars, fmtVars, weatherVars, geoVars, appVars, dataVars, distVars, windowVars>>
SpecFilter == InitFilter /\ [][NextFilter]_vars

\* The responses followed through a page load: a realtime response is JSON
\* null or has one reading of the preferred station per type, the wind
\* readings possibly missing; a forecast response is JSON null or a list of
\* complete days.
LoadRealtime(data) ==
  \/ data.shape = "null"
  \/ /\ data.shape = "ok"
     /\ data.missing \subseteq {"wind_speed"}
     /\ \A q \in Quantities \ data.missing :
          Len(data[q]) = 1 /\ data[q][1].station_id \in {"S24", "S64"}

LoadForecast(data) ==
  \/ data.shape = "null"
  \/ /\ data.shape = "ok"
     /\ \A i \in 1..Len(data.forecasts) : data.forecasts[i].missing = {}

\* The positions followed through a page load.
LoadPosition(location) == location.lat = 1300000 /\ location.accuracy = 10

\* What storage holds at a page load.
LoadEventTexts ==
  {<<>>, <<"null">>, <<"{", "}">>, JSONStringifyArray(<<NoLocationEvent>>),
   JSONStringifyArray(<<Event("event_a", toISOString(FridayNoon + 300), 4, 10)>>)}

LoadCrewTexts == {<<>>, <<"null">>, <<"{", "}">>}

LoadInputs ==
  /\ hasGeolocation \in BOOLEAN
  /\ storageWritable = TRUE
  /\ storageReadable = TRUE
  /\ \E eventsText \in LoadEventTexts, crewsText \in LoadCrewTexts :
       localStorage = Stored(eventsText, crewsText)
  /\ geoRequest = "none"
  /\ geoRequests = 0
  /\ geoPromise = NoPromise
  /\ locPc = "idle"
  /\ userLocation = NoLocation
  /\ hasIntersectionObserver \in BOOLEAN
  /\ timeOrigin = FridayNoon
  /\ Constructed
  /\ DataIdle

\* One run of init, without user input.
InitLoad == CondIdle /\ FormatIdle /\ WeatherIdle /\ LoadInputs /\ DistIdle /\ WindowIdle
NextLoad ==
  \/ InitCall /\ UNCHANGED <<condVars, fmtVars, weatherVars, uiVars, dataVars, distVars, windowVars>>
  \/ GeolocationSuccess /\ LoadPosition(geoPromise'.value)
       /\ UNCHANGED <<condVars, fmtVars, weatherVars, pageVars>>
  \/ GeolocationError /\ UNCHANGED <<condVars, fmtVars, weatherVars, pageVars>>
  \/ LoadUserLocationResume /\ UNCHANGED <<condVars, fmtVars, weatherVars, pageVars>>
  \/ InitResumeLocation /\ UNCHANGED <<condVars, fmtVars, geoVars, uiVars, dataVars, distVars, windowVars>>
  \/ FetchRealtimeWeatherFails /\ UNCHANGED <<condVars, fmtVars, geoVars, pageVars>>
  \/ FetchRealtimeWeatherOk /\ LoadRealtime(realtimeData'[1])
       /\ UNCHANGED <<condVars, fmtVars, geoVars, pageVars>>
  \/ Fetch4DayForecastFails /\ UNCHANGED <<condVars, fmtVars, geoVars, pageVars>>
  \/ Fetch4DayForecastOk /\ LoadForecast(forecastData'[1])
       /\ UNCHANGED <<condVars, fmtVars, geoVars, pageVars>>
  \/ LoadWeatherDataResume
       /\ UNCHANGED <<condVars, fmtVars, weatherVars, geoVars, uiVars, dataVars, distVars, windowVars>>
  \/ InitResumeWeather
       /\ UNCHANGED <<condVars, fmtVars, weatherVars, geoVars, uiVars, dataVars, distVars, windowVars>>
SpecLoad == InitLoad /\ [][NextLoad]_vars

\* What storage holds at a page load that the user takes part in: nothing,
\* or two events.
PageEventTexts ==
  {<<>>,
   JSONStringifyArray(<<Event("event_a", toISOString(FridayNoon + 300), 4, 10),
                        Event("event_b", toISOString(6 * DayMs), 5, 10)>>)}

PageInputs ==
  /\ hasGeolocation \in BOOLEAN
  /\ storageWritable = TRUE
  /\ storageReadable = TRUE
  /\ \E eventsText \in PageEventTexts : localStorage = Stored(eventsText, <<>>)
  /\ geoRequest = "none"
  /\ geoRequests = 0
  /\ geoPromise = NoPromise
  /\ locPc = "idle"
  /\ userLocation = NoLocation
  /\ hasIntersectionObserver = TRUE
  /\ timeOrigin = FridayNoon
  /\ Constructed
  /\ DataIdle

\* One run of init with the user clicking filter and join buttons while and
\* after it runs.  The requests end in one way each: the position is the
\* first of Positions, the realtime request is rejected or answered without
\* wind readings, the forecast request is answered with a non-OK status or
\* with four complete days, Math.random returns 0, the geolocation request
\* fails by its timeout; a filter button is clicked when no timer is pending,
\* the crew joined is the first one, and time passes in steps of
\* DEBOUNCE_DELAY.
InitPage == CondIdle /\ FormatIdle /\ WeatherIdle /\ PageInputs /\ DistIdle /\ WindowIdle
NextPage ==
  \/ InitCall /\ UNCHANGED <<condVars, fmtVars, weatherVars, uiVars, dataVars, distVars, windowVars>>
  \/ GeolocationSuccess /\ LoadPosition(geoPromise'.value)
       /\ geoPromise'.value.lng = 103800000
       /\ UNCHANGED <<condVars, fmtVars, weatherVars, pageVars>>
  \/ GeolocationError /\ geoRequest' = "TIMEOUT"
       /\ UNCHANGED <<condVars, fmtVars, weatherVars, pageVars>>
  \/ LoadUserLocationResume /\ UNCHANGED <<condVars, fmtVars, weatherVars, pageVars>>
  \/ InitResumeLocation /\ UNCHANGED <<condVars, fmtVars, geoVars, uiVars, dataVars, distVars, windowVars>>
  \/ FetchRealtimeWeatherFails /\ realtimeFetch' = "rejected"
       /\ weatherPromise'.value = getFallbackWeatherData(0)
       /\ UNCHANGED <<condVars, fmtVars, geoVars, pageVars>>
  \/ FetchRealtimeWeatherOk /\ LoadRealtime(realtimeData'[1])
       /\ realtimeData'[1].missing = {"wind_speed"}
       /\ UNCHANGED <<condVars, fmtVars, geoVars, pageVars>>
  \/ Fetch4DayForecastFails /\ forecastFetch' = "notOk"
       /\ weatherPromise'.value = getFallbackWeatherData(0)
       /\ UNCHANGED <<condVars, fmtVars, geoVars, pageVars>>
  \/ Fetch4DayForecastOk /\ LoadForecast(forecastData'[1])
       /\ Len(forecastData'[1].forecasts) = 4
       /\ UNCHANGED <<condVars, fmtVars, geoVars, pageVars>>
  \/ LoadWeatherDataResume
       /\ UNCHANGED <<condVars, fmtVars, weatherVars, geoVars, uiVars, dataVars, distVars, windowVars>>
  \/ InitResumeWeather
       /\ UNCHANGED <<condVars, fmtVars, weatherVars, geoVars, uiVars, dataVars, distVars, windowVars>>
  \/ FilterClick /\ debounceTimer = <<>>
       /\ UNCHANGED <<condVars, fmtVars, weatherVars, geoVars, appVars, dataVars, distVars, windowVars>>
  \/ HandleFilterChange
       /\ UNCHANGED <<condVars, fmtVars, weatherVars, geoVars, initVars, dataVars, distVars, windowVars>>
  \/ Tick /\ now' = now + DEBOUNCE_DELAY
       /\ UNCHANGED <<condVars, fmtVars, weatherVars, geoVars, appVars, dataVars, distVars, windowVars>>
  \/ HandleJoinEvent
       /\ UNCHANGED <<condVars, fmtVars, weatherVars, geoVars, initVars, uiVars, dataVars, distVars, windowVars>>
  \/ HandleJoinCrew /\ crewCards'[1].joined
       /\ UNCHANGED <<condVars, fmtVars, weatherVars, geoVars, initVars, uiVars, dataVars, distVars, windowVars>>
SpecPage == InitPage /\ [][NextPage]_vars

\* calculateDistance on drawn coordinates.
InitDistance ==
  /\ CondIdle /\ FormatIdle /\ WeatherIdle /\ GeoIdle
  /\ hasIntersectionObserver = TRUE
  /\ timeOrigin = 0
  /\ Constructed /\ DataIdle /\ WindowIdle
  /\ DistInputs
NextDistance ==
  CalculateDistance
    /\ UNCHANGED <<condVars, fmtVars, weatherVars, geoVars, appVars, uiVars, dataVars,
                   windowVars>>
SpecDistance == InitDistance /\ [][NextDistance]_vars

\* A loaded page without stored events, loaded on Friday noon.
LoadedEmpty ==
  /\ LoadedInputs
  /\ cleanupEvents = Array(<<>>)
  /\ timeOrigin = FridayNoon

\* Scroll events, resize events and clicks on the nav toggle on a loaded
\* page, with the passing of time.
InitWindow == CondIdle /\ FormatIdle /\ WeatherDone /\ LoadedEmpty /\ DistIdle /\ WindowInputs
NextWindow ==
  \/ ScrollEvent
       /\ UNCHANGED <<condVars, fmtVars, weatherVars, geoVars, appVars, uiVars, dataVars,
                      distVars>>
  \/ ResizeEvent
       /\ UNCHANGED <<condVars, fmtVars, weatherVars, geoVars, appVars, uiVars, dataVars,
                      distVars>>
  \/ ThrottleTimeout
       /\ UNCHANGED <<condVars, fmtVars, weatherVars, geoVars, appVars, uiVars, dataVars,
                      distVars>>
  \/ NavToggleClick
       /\ UNCHANGED <<condVars, fmtVars, weatherVars, geoVars, appVars, uiVars, dataVars,
                      distVars>>
  \/ Tick /\ UNCHANGED <<condVars, fmtVars, weatherVars, geoVars, appVars, dataVars, distVars, windowVars>>
  \/ Wait /\ now' <= MaxElapsed
       /\ UNCHANGED <<condVars, fmtVars, weatherVars, geoVars, appVars, dataVars, distVars, windowVars>>
SpecWindow == InitWindow /\ [][NextWindow]_vars

\* A loaded page showing one event and the default crews.
LoadedOne ==
  /\ LoadedInputs
  /\ cleanupEvents = Array(<<Event("event_a", toISOString(6 * DayMs), 4, 10)>>)
  /\ timeOrigin = FridayNoon

\* At most one notification is in the document.
FewShown == \A i \in 1..Len(notices) : \A j \in 1..Len(notices) :
  notices[i].inDocument /\ notices[j].inDocument => i = j

\* Notifications on a loaded page: the user joins the event and the first
\* crew and clicks close buttons, and the timers of the notifications run.
\* A join button is clicked while at most one notification is shown, and
\* before the first timer falls due time passes in steps of DEBOUNCE_DELAY.
InitNotify == CondIdle /\ FormatIdle /\ WeatherDone /\ LoadedOne /\ DistIdle /\ WindowIdle
NextNotify ==
  \/ HandleJoinEvent /\ FewShown
       /\ UNCHANGED <<condVars, fmtVars, weatherVars, geoVars, initVars, uiVars, dataVars, distVars, windowVars>>
  \/ HandleJoinCrew /\ FewShown /\ crewCards'[1].joined
       /\ UNCHANGED <<condVars, fmtVars, weatherVars, geoVars, initVars, uiVars, dataVars, distVars, windowVars>>
  \/ CloseClick
       /\ UNCHANGED <<condVars, fmtVars, weatherVars, geoVars, initVars, uiVars, dataVars, distVars, windowVars>>
  \/ AutoClose
       /\ UNCHANGED <<condVars, fmtVars, weatherVars, geoVars, initVars, uiVars, dataVars, distVars, windowVars>>
  \/ RemoveTimeout
       /\ UNCHANGED <<condVars, fmtVars, weatherVars, geoVars, initVars, uiVars, dataVars, distVars, windowVars>>
  \/ Tick /\ now' = now + DEBOUNCE_DELAY
       /\ UNCHANGED <<condVars, fmtVars, weatherVars, geoVars, appVars, dataVars, distVars, windowVars>>
  \/ Wait /\ UNCHANGED <<condVars, fmtVars, weatherVars, geoVars, appVars, dataVars, distVars, windowVars>>
SpecNotify == InitNotify /\ [][NextNotify]_vars

\* What the CLEANUP_EVENTS key holds when events are added: nothing, null,
\* an object, the empty list or a list of one event.
AddEventTexts ==
  {<<>>, <<"null">>, <<"{", "}">>, JSONStringifyArray(<<>>),
   JSONStringifyArray(<<Event("event_a", toISOString(FridayNoon + 300), 4, 10)>>)}

AddInputs ==
  /\ hasGeolocation = TRUE
  /\ storageWritable \in BOOLEAN
  /\ storageReadable \in BOOLEAN
  /\ \E eventsText \in AddEventTexts : localStorage = Stored(eventsText, <<>>)
  /\ geoRequest = "none"
  /\ geoRequests = 0
  /\ geoPromise = NoPromise
  /\ locPc = "idle"
  /\ userLocation = NoLocation
  /\ hasIntersectionObserver = TRUE
  /\ timeOrigin = FridayNoon
  /\ Constructed
  /\ DataIdle

\* Calls of getCleanupEvents and addCleanupEvent, with the passing of time.
InitAdd == CondIdle /\ FormatIdle /\ WeatherIdle /\ AddInputs /\ DistIdle /\ WindowIdle
NextAdd ==
  \/ GetCleanupEvents
       /\ UNCHANGED <<condVars, fmtVars, weatherVars, geoVars, appVars, uiVars, distVars, windowVars>>
  \/ AddCleanupEvent
       /\ UNCHANGED <<condVars, fmtVars, weatherVars, appVars, uiVars, distVars, windowVars>>
  \/ Tick /\ now' = now + DEBOUNCE_DELAY
       /\ UNCHANGED <<condVars, fmtVars, weatherVars, geoVars, appVars, dataVars, distVars, windowVars>>
SpecAdd == InitAdd /\ [][NextAdd]_vars

---------------------------------------------------------------------------
(* Claims about getCurrentWeather (Spec) *)

Returned == wpc = "returned"

IsFallbackForecast(forecast) ==
  \E r \in RandomDraws : forecast = getFallbackForecastData(r)

\* A part of the returned bundle is live-derived: it is what the try block
\* of its formatter makes of the response.
CurrentIsLive ==
  /\ realtimeData # <<>>
  /\ ~formatCurrentWeatherTry(realtimeData[1]).threw
  /\ weatherPromise.value.current = formatCurrentWeatherTry(realtimeData[1]).value

ForecastIsLive ==
  /\ forecastData # <<>>
  /\ ~formatForecastDataTry(forecastData[1]).threw
  /\ weatherPromise.value.forecast = formatForecastDataTry(forecastData[1]).value

CurrentIsFallback == weatherPromise.value.current = getFallbackCurrentWeather

ForecastIsFallback == IsFallbackForecast(weatherPromise.value.forecast)

AFetchFailed == realtimeFetch \in FetchFailures \/ forecastFetch \in FetchFailures

\* C1: getCurrentWeather never rejects; when the realtime fetch or the
\* forecast fetch rejects or answers with a non-OK status, it resolves to the
\* complete fallback bundle, whose current record has temperature 29,
\* humidity 78, windSpeed 12, rainfall 0 and condition 'pleasant'.
C1_FallbackBundleOnFetchFailure ==
  /\ weatherPromise.state # "rejected"
  /\ Returned => weatherPromise.state = "fulfilled"
  /\ Returned /\ AFetchFailed =>
       /\ CurrentIsFallback
       /\ ForecastIsFallback
       /\ weatherPromise.value.current.temperature = 29
       /\ weatherPromise.value.current.humidity = 78
       /\ weatherPromise.value.current.windSpeed = 12
       /\ weatherPromise.value.current.rainfall = 0
       /\ weatherPromise.value.current.condition = "pleasant"

\* C1 witness: the forecast fetch failed after a realtime response from which
\* a live current record could be made, and the fallback bundle was returned.
C1_Witness ==
  /\ Returned
  /\ realtimeFetch = "ok"
  /\ forecastFetch \in {"rejected", "notOk"}
  /\ ~formatCurrentWeatherTry(realtimeData[1]).threw
  /\ weatherPromise.state = "fulfilled"
  /\ CurrentIsFallback

\* C2 as stated: the returned bundle is all-or-nothing, both parts
\* live-derived or both parts fallback values.
C2_AllOrNothing ==
  Returned /\ weatherPromise.state = "fulfilled" =>
    \/ CurrentIsLive /\ ForecastIsLive
    \/ CurrentIsFallback /\ ForecastIsFallback

\* C2 amended: the bundle is the complete fallback whenever a fetch fails;
\* when both fetches succeed each part is decided on its own, live-derived
\* when its formatter's try block completes and the fallback of that part
\* otherwise, so a fallback part can be paired with a live-derived part.
C2_EachPartOnItsOwn ==
  Returned =>
    /\ weatherPromise.state = "fulfilled"
    /\ AFetchFailed => CurrentIsFallback /\ ForecastIsFallback
    /\ ~AFetchFailed =>
         /\ IF formatCurrentWeatherTry(realtimeData[1]).threw
            THEN CurrentIsFallback ELSE CurrentIsLive
         /\ IF formatForecastDataTry(forecastData[1]).threw
            THEN ForecastIsFallback ELSE ForecastIsLive

\* C2 witness: a malformed realtime response and a well-formed forecast give
\* the fallback current record beside a live-derived forecast list.
C2_Witness ==
  /\ Returned
  /\ ~AFetchFailed
  /\ realtimeData[1].shape = "noItems"
  /\ CurrentIsFallback
  /\ ForecastIsLive
  /\ Len(weatherPromise.value.forecast) = 4

---------------------------------------------------------------------------
(* Claims about determineCondition (SpecCondition) *)

Determined == condResult # "none"

\* C4: determineCondition applies its thresholds in a fixed priority with
\* strict comparisons: 'rainy' if rainfall > 5; otherwise 'humid' if
\* humidity > 80; otherwise 'hot' if temp > 32; otherwise 'cool' if
\* temp < 26; otherwise 'pleasant'.
C4_ThresholdPriority ==
  Determined =>
    /\ condArgs.rainfall > N(5) => condResult = "rainy"
    /\ condArgs.rainfall <= N(5) /\ condArgs.humidity > N(80) =>
         condResult = "humid"
    /\ condArgs.rainfall <= N(5) /\ condArgs.humidity <= N(80)
         /\ condArgs.temp > N(32) => condResult = "hot"
    /\ condArgs.rainfall <= N(5) /\ condArgs.humidity <= N(80)
         /\ condArgs.temp < N(26) => condResult = "cool"
    /\ condArgs.rainfall <= N(5) /\ condArgs.humidity <= N(80)
         /\ condArgs.temp <= N(32) /\ condArgs.temp >= N(26) =>
         condResult = "pleasant"

\* C4 witness: a call with the boundary values 5, 80 and 32 themselves is
\* labelled 'pleasant'.
C4_Witness ==
  /\ condArgs = [temp |-> N(32), humidity |-> N(80), rainfall |-> N(5)]
  /\ condResult = "pleasant"

\* C5 as stated: whenever temperature is 33 and rainfall is 0, the label
\* is 'hot'.
C5_HotAt33 ==
  Determined /\ condArgs.temp = N(33) /\ condArgs.rainfall = 0 =>
    condResult = "hot"

\* C5 amended: whenever temperature is 33, rainfall is 0 and humidity is at
\* most 80, the label is 'hot'; with humidity above 80 it is 'humid'.
C5_HotAt33UnlessHumid ==
  Determined /\ condArgs.temp = N(33) /\ condArgs.rainfall = 0 =>
    condResult = IF condArgs.humidity > N(80) THEN "humid" ELSE "hot"

\* C5 witness: 33 degrees, no rain, humidity exactly 80 is labelled 'hot'.
C5_Witness ==
  /\ condArgs = [temp |-> N(33), humidity |-> N(80), rainfall |-> 0]
  /\ condResult = "hot"

---------------------------------------------------------------------------
(* Claims about formatCurrentWeather and formatForecastData (SpecFormat) *)

CurrentFormatted == fmtCall = "current" /\ fmtResult # <<>>

ForecastFormatted == fmtCall = "forecast" /\ fmtResult # <<>>

\* The response has items[0].readings with the three lists that
\* formatCurrentWeather requires.
WellFormedRealtime(data) ==
  /\ data.shape = "ok"
  /\ data.missing \cap {"air_temperature", "relative_humidity", "rainfall"} = {}

\* A record made from the response, not the fallback record.
IsLiveRecord(outcome) ==
  ~outcome.threw /\ outcome.value.location = "Pasir Ris Area"

\* The reading the claims expect of a list: that of a preferred station when
\* one is present, the first of the list otherwise.
UsesPreferred(list, preferred, used) ==
  IF \E i \in 1..Len(list) : list[i].station_id \in preferred
  THEN \E i \in 1..Len(list) :
         list[i].station_id \in preferred /\ used = list[i].value
  ELSE Len(list) > 0 => used = list[1].value

\* v m/s in km/h, rounded (v is in tenths: v * 3.6 = v * 36 / 100).
KmPerHour(v) == (v * 36 + 50) \div 100

\* C3: when the realtime response has a wind_speed reading of v m/s for the
\* selected station, formatCurrentWeather returns a live-derived record whose
\* windSpeed is v * 3.6 rounded.
C3_WindSpeedInKmPerHour ==
  CurrentFormatted /\ WellFormedRealtime(fmtData) /\ fmtData.wind_speed # <<>> =>
    /\ IsLiveRecord(fmtResult[1])
    /\ \E i \in 1..Len(fmtData.wind_speed) :
         fmtResult[1].value.windSpeed = KmPerHour(fmtData.wind_speed[i].value)

\* C7: for each reading type formatCurrentWeather uses the reading of a
\* preferred station (S24/S109; rainfall: S64) when one is in the list, and
\* the first reading of the list only when none is.
C7_PreferredStationReadings ==
  CurrentFormatted /\ WellFormedRealtime(fmtData) =>
    /\ ~fmtResult[1].threw
    /\ \E t \in {fmtData.air_temperature[i].value :
                   i \in 1..Len(fmtData.air_temperature)} \cup {N(28)} :
         /\ UsesPreferred(fmtData.air_temperature, {"S24", "S109"}, t)
         /\ fmtResult[1].value.temperature = MathRound(t)
    /\ \E h \in {fmtData.relative_humidity[i].value :
                   i \in 1..Len(fmtData.relative_humidity)} \cup {N(75)} :
         /\ UsesPreferred(fmtData.relative_humidity, {"S24", "S109"}, h)
         /\ fmtResult[1].value.humidity = MathRound(h)
    /\ \E r \in {fmtData.rainfall[i].value :
                   i \in 1..Len(fmtData.rainfall)} \cup {0} :
         /\ UsesPreferred(fmtData.rainfall, {"S64"}, r)
         /\ fmtResult[1].value.rainfall = r
    /\ \E w \in {fmtData.wind_speed[i].value :
                   i \in 1..Len(fmtData.wind_speed)} \cup {0} :
         /\ UsesPreferred(fmtData.wind_speed, {"S24", "S109"}, w)
         /\ fmtData.wind_speed # <<>> =>
              fmtResult[1].value.windSpeed = KmPerHour(w)

\* The temperature and rainfall that formatCurrentWeather takes from a
\* well-formed response.
SelectedTemperature(data) ==
  IF tempReading(data) # <<>> THEN tempReading(data)[1].value ELSE N(28)

SelectedRainfall(data) ==
  IF rainfallReading(data) # <<>> THEN rainfallReading(data)[1].value ELSE 0

\* C6 as stated: in a live-derived current record the icon and the
\* description are determined by the condition label alone, so any two
\* readings with the same label have the same icon and the same description.
C6_IconAndDescriptionByLabel ==
  CurrentFormatted /\ IsLiveRecord(fmtResult[1]) =>
    \A other \in FetchedRealtimePayloads :
      /\ IsLiveRecord(formatCurrentWeather(other))
      /\ formatCurrentWeather(other).value.condition = fmtResult[1].value.condition
      => /\ formatCurrentWeather(other).value.icon = fmtResult[1].value.icon
         /\ formatCurrentWeather(other).value.description =
              fmtResult[1].value.description

\* C6 amended: in a live-derived current record the icon and the description
\* are determined by the selected temperature and rainfall readings through
\* the fixed thresholds of getWeatherIcon and getConditionDescription, not by
\* the label: two responses with the same selected temperature and rainfall
\* get the same icon and description whatever their humidity and label.
C6_IconAndDescriptionByReadings ==
  CurrentFormatted /\ IsLiveRecord(fmtResult[1]) =>
    \A other \in FetchedRealtimePayloads :
      /\ IsLiveRecord(formatCurrentWeather(other))
      /\ SelectedTemperature(other) = SelectedTemperature(fmtData)
      /\ SelectedRainfall(other) = SelectedRainfall(fmtData)
      => /\ formatCurrentWeather(other).value.icon = fmtResult[1].value.icon
         /\ formatCurrentWeather(other).value.description =
              fmtResult[1].value.description

\* C6 witness: a live-derived record labelled 'humid' that has the icon and
\* description of a 'pleasant' record with the same temperature and rainfall.
C6_Witness ==
  /\ CurrentFormatted
  /\ IsLiveRecord(fmtResult[1])
  /\ fmtResult[1].value.condition = "humid"
  /\ \E other \in FetchedRealtimePayloads :
       /\ IsLiveRecord(formatCurrentWeather(other))
       /\ formatCurrentWeather(other).value.condition = "pleasant"
       /\ SelectedTemperature(other) = SelectedTemperature(fmtData)
       /\ SelectedRainfall(other) = SelectedRainfall(fmtData)
       /\ formatCurrentWeather(other).value.icon = fmtResult[1].value.icon

\* A forecast response that lacks a field formatForecastData requires.
MalformedForecast(data) ==
  \/ data.shape # "ok"
  \/ \E i \in 1..Len(data.forecasts) :
       data.forecasts[i].missing \cap {"temperature", "relative_humidity"} # {}

\* C8: formatCurrentWeather and formatForecastData never throw; for a payload
\* that is malformed or lacks a required field they return the hardcoded
\* fallback value of their part.
C8_FormattersFallBack ==
  /\ CurrentFormatted =>
       /\ ~fmtResult[1].threw
       /\ ~WellFormedRealtime(fmtData) =>
            fmtResult[1].value = getFallbackCurrentWeather
  /\ ForecastFormatted =>
       /\ ~fmtResult[1].threw
       /\ MalformedForecast(fmtForecastData) =>
            IsFallbackForecast(fmtResult[1].value)

\* C8 witness: a response without a rainfall list, whose other lists hold
\* readings, was formatted to the fallback current record.
C8_Witness ==
  /\ CurrentFormatted
  /\ fmtData.shape = "ok"
  /\ fmtData.missing = {"rainfall"}
  /\ fmtData.air_temperature # <<>>
  /\ fmtResult[1] = Ok(getFallbackCurrentWeather)

---------------------------------------------------------------------------
(* Claims about the location resolver (SpecGeo) *)

StoredLocation == localStorage[USER_LOCATION]

\* C9 as stated: getCurrentPosition never rejects; on a position error and
\* without the geolocation capability its promise resolves to
\* CONFIG.DEFAULT_LOCATION.
C9_NeverRejects ==
  /\ geoPromise.state # "rejected"
  /\ locPc # "idle" /\ (~hasGeolocation \/ geoRequest \in PositionErrors) =>
       geoPromise = [state |-> "fulfilled", value |-> DEFAULT_LOCATION]

\* C9 amended: on permission denial, timeout or another position error the
\* promise of getCurrentPosition resolves to CONFIG.DEFAULT_LOCATION; without
\* the geolocation capability it rejects, and only then; loadUserLocation
\* catches the rejection and sets userLocation to CONFIG.DEFAULT_LOCATION, so
\* no error goes beyond loadUserLocation.
C9_RejectsOnlyWithoutCapability ==
  /\ geoRequest \in PositionErrors =>
       geoPromise = [state |-> "fulfilled", value |-> DEFAULT_LOCATION]
  /\ geoPromise.state = "rejected" <=> (~hasGeolocation /\ locPc # "idle")
  /\ locPc = "done" /\ (~hasGeolocation \/ geoRequest \in PositionErrors) =>
       userLocation = DEFAULT_LOCATION

\* C9 witness: without the capability the promise rejected and
\* loadUserLocation finished with the default location.
C9_Witness ==
  /\ ~hasGeolocation
  /\ geoPromise.state = "rejected"
  /\ locPc = "done"
  /\ userLocation = DEFAULT_LOCATION

\* C10 as stated: when the geolocation request succeeds the USER_LOCATION
\* key is set to exactly the coordinate the resolver returns.
C10_StoredOnSuccess ==
  geoRequest = "success" =>
    /\ StoredLocation # <<>>
    /\ JSONParse(StoredLocation) = geoPromise.value

\* C10 amended: the USER_LOCATION key is written only when the geolocation
\* request succeeds, and is then, provided localStorage.setItem does not
\* throw, set to exactly the coordinate (lat, lng, accuracy) the resolver
\* returns; when setItem throws, and on denial, timeout or missing
\* capability, the stored value is left unchanged.
C10_StoredOnlyOnSuccess ==
  [][/\ StoredLocation' # StoredLocation =>
          geoRequest = "pending" /\ geoRequest' = "success" /\ storageWritable
     /\ geoRequest = "pending" /\ geoRequest' = "success" /\ storageWritable =>
          /\ StoredLocation' # <<>>
          /\ JSONParse(StoredLocation') = geoPromise'.value
          /\ geoPromise'.value \in [lat : Int, lng : Int, accuracy : Int]]_vars

\* C10 witness: the request succeeded with a writable storage, which holds
\* the returned coordinate.
C10_Witness ==
  /\ geoRequest = "success"
  /\ storageWritable
  /\ StoredLocation = JSONStringify(geoPromise.value)
  /\ locPc = "done"
  /\ userLocation = JSONParse(StoredLocation)

---------------------------------------------------------------------------
(* Claims about the page load (SpecLoad) and about one call of             *)
(* getCurrentWeather (Spec)                                                *)

Settled(promise) == promise.state \in {"fulfilled", "rejected"}

\* C12: the realtime and the forecast request are never pending together;
\* the forecast request exists only once the realtime request has succeeded;
\* and a weather request exists only once the geolocation request is over
\* and loadUserLocation has settled.
C12_WeatherRequestsSequential ==
  /\ ~(realtimeFetch = "pending" /\ forecastFetch = "pending")
  /\ forecastFetch # "none" => realtimeFetch = "ok"
  /\ realtimeFetch # "none" =>
       /\ geoRequest # "pending"
       /\ Settled(geoPromise)
       /\ locPc = "done"

\* The forecast request is in flight after a geolocation request that timed out.
C12_Witness ==
  /\ forecastFetch = "pending"
  /\ realtimeFetch = "ok"
  /\ geoRequest = "TIMEOUT"
  /\ initPc = "awaitWeather"

\* The number of requests to an endpoint.
Requests(endpoint) == Cardinality({i \in 1..Len(fetchLog) : fetchLog[i] = endpoint})

\* C13 as stated: a call of getCurrentWeather that has returned has made
\* exactly one request to the realtime endpoint and exactly one to the
\* forecast endpoint, whatever the outcome of either.
C13_OneRequestToEachEndpoint ==
  Returned => Requests(REALTIME) = 1 /\ Requests(FORECAST) = 1

\* C13 amended: a call makes exactly one realtime request; it makes one
\* forecast request when the realtime request succeeded and none when it
\* failed; no endpoint is ever requested twice.
C13_ForecastRequestAfterRealtimeSuccess ==
  /\ Requests(REALTIME) <= 1
  /\ Requests(FORECAST) <= 1
  /\ wpc # "idle" => Requests(REALTIME) = 1
  /\ Requests(FORECAST) = (IF realtimeFetch = "ok" THEN 1 ELSE 0)

\* The call returned after a failed realtime request, which was the only request.
C13_Witness ==
  /\ Returned
  /\ realtimeFetch \in FetchFailures
  /\ fetchLog = <<REALTIME>>

\* The error notifications shown so far.
ErrorNotifications ==
  LET IsError(n) == n.type = "error" IN SelectSeq(notified, IsError)

IsPrefix(s, t) == Len(s) <= Len(t) /\ \A i \in 1..Len(s) : s[i] = t[i]

\* A step of init threw: some step of the sequence did not complete.
InitThrew == initPc = "done" /\ initSteps # InitStepNames

\* C15: the promise of init is never rejected; the completed steps are a
\* prefix of the sequence; when a step threw, exactly one error notification
\* with the refresh message is shown and the later steps have not run (no
\* crew card when render did not complete); when no step threw, and while
\* init is still running, no error notification is shown.
C15_InitNeverRejects ==
  /\ initPromise.state # "rejected"
  /\ IsPrefix(initSteps, InitStepNames)
  /\ initPc = "done" => initPromise.state = "fulfilled"
  /\ InitThrew =>
       /\ ErrorNotifications = <<Notification(InitFailedMessage, "error")>>
       /\ Len(initSteps) < 5 => crewCards = <<>>
  /\ ~InitThrew => ErrorNotifications = <<>>

\* render threw on a stored object that is no list: loadData is the last
\* completed step and the notification is shown.
C15_Witness ==
  /\ initPc = "done"
  /\ initSteps = SubSeq(InitStepNames, 1, 4)
  /\ cleanupEvents = EmptyObject
  /\ Len(ErrorNotifications) = 1
  /\ initPromise.state = "fulfilled"

\* The forecast response was received and formatForecastData could map it.
LiveForecast ==
  /\ forecastFetch = "ok"
  /\ ~formatForecastDataTry(forecastData[1]).threw

\* C18 as stated: once loadWeatherData has completed, weatherData.forecast
\* has exactly four entries.
C18_FourForecastEntries ==
  weatherPc = "done" => Len(weatherData[1].forecast) = 4

\* C18 amended: once loadWeatherData has completed, weatherData.forecast has
\* one entry per day of the forecast response when both requests succeeded
\* and the response could be mapped, and the four fallback entries otherwise.
C18_OneEntryPerUpstreamDay ==
  weatherPc = "done" =>
    Len(weatherData[1].forecast) =
      (IF LiveForecast THEN Len(forecastData[1].forecasts) ELSE 4)

\* A forecast response of two days left two entries.
C18_Witness ==
  /\ weatherPc = "done"
  /\ LiveForecast
  /\ Len(forecastData[1].forecasts) = 2
  /\ Len(weatherData[1].forecast) = 2

---------------------------------------------------------------------------
(* Claims about DataManager (SpecData) *)

\* The stored string under key is valid JSON.
ValidJSON(key) ==
  /\ localStorage[key] # <<>>
  /\ localStorage[key] \notin {<<"">>, <<"not json">>, <<"[">>}

\* What the claim expects of a read of key with the seed list `seed`.
ExpectedRead(key, seed) ==
  IF storageReadable /\ ValidJSON(key) THEN JSONParseValue(localStorage[key]).value
  ELSE Array(seed)

\* C16: getCleanupEvents and getCrews never throw; they return the seed list
\* when the key is absent, the read throws or the stored string is not valid
\* JSON, and the parsed stored value otherwise.
C16_SeedUnlessValidStoredValue ==
  dmResult # <<>> =>
    /\ ~dmResult[1].threw
    /\ dmCall = "getCleanupEvents" =>
         dmResult[1].value =
           ExpectedRead(CLEANUP_EVENTS, defaultEvents(DateNow(timeOrigin, now)))
    /\ dmCall = "getCrews" => dmResult[1].value = ExpectedRead(CREW_DATA, defaultCrews)

\* getCleanupEvents returned the seed list for a stored string that is not JSON.
C16_Witness ==
  /\ dmCall = "getCleanupEvents"
  /\ storageReadable
  /\ localStorage[CLEANUP_EVENTS] = <<"not json">>
  /\ dmResult = <<Ok(Array(defaultEvents(DateNow(timeOrigin, now))))>>

---------------------------------------------------------------------------
(* Claims about the fallback data (SpecFallback) *)

FixedPart(entry) ==
  [date |-> entry.date, forecast |-> entry.forecast, icon |-> entry.icon,
   description |-> entry.description, direction |-> entry.wind[1].direction]

\* The ranges of the fields of a fallback forecast entry that Math.random enters.
InFallbackRanges(entry) ==
  /\ entry.temperature.high \in 32..35
  /\ entry.temperature.low \in 26..28
  /\ entry.humidity.high \in 85..95
  /\ entry.humidity.low \in 65..75
  /\ entry.wind[1].speed \in 10..15

---------------------------------------------------------------------------
(* Claims about the filter buttons (SpecFilter) *)

\* The instant that the date of an event with a known date denotes.
DateOf(event) == event.date[2]

\* The filter predicates of the claim at clock t.  Day 0 is a Monday, so
\* days 5 and 6 of a week are Saturday and Sunday.
Satisfies(event, token, t) ==
  CASE token = "all" -> TRUE
    [] token = "today" -> DateOf(event) \div DayMs = t \div DayMs
    [] token = "weekend" -> (DateOf(event) \div DayMs) % 7 \in {5, 6}
    [] token = "upcoming" -> DateOf(event) > t

\* The cards of the events that satisfy the token at clock t, in list order.
ExpectedCards(token, t) ==
  LET Keep(event) == Satisfies(event, token, t)
      kept == SelectSeq(cleanupEvents.items, Keep)
  IN [i \in 1..Len(kept) |-> [event |-> kept[i], joined |-> FALSE]]

\* The step in which the timer callback runs handleFilterChange.
HandlerRuns == debounceTimer # <<>> /\ debounceTimer' = <<>>

\* C14: the run of renderFilteredEvents leaves in #cleanup-map the cards of
\* exactly the events of cleanupEvents, in their order and unaltered, that
\* satisfy the active token at the clock of the call: every event for 'all',
\* those of the current calendar day for 'today', those on a Saturday or
\* Sunday for 'weekend', those strictly later than now for 'upcoming';
\* cleanupEvents itself is left as it was.
C14_FilteredSubsequence ==
  [][HandlerRuns =>
       /\ cleanupEvents' = cleanupEvents
       /\ \E token \in FilterTokens :
            /\ activeFilters' = {token}
            /\ mapCards' = ExpectedCards(token, timeOrigin + now)]_vars

\* 'upcoming' dropped the first of two events and kept the second.
C14_Witness ==
  /\ activeFilters = {"upcoming"}
  /\ lastClick # <<>>
  /\ lastClick[1].runs = 1
  /\ Len(cleanupEvents.items) = 2
  /\ Len(mapCards) = 1
  /\ mapCards[1].event = cleanupEvents.items[2]

\* While the timer is pending it is the timer of the last click: due
\* DEBOUNCE_DELAY after it, holding its filter and button, the handler not
\* yet run.  Once it has gone, the handler has run once since the last
\* click, no earlier than DEBOUNCE_DELAY after it, with its filter and
\* button, and the list shown is the one filtered at that instant.
DebounceState ==
  /\ debounceTimer # <<>> =>
       /\ lastClick # <<>>
       /\ lastClick[1].runs = 0
       /\ debounceTimer[1].due = lastClick[1].at + 300
       /\ now <= debounceTimer[1].due
       /\ debounceTimer[1].args.button = lastClick[1].button
       /\ debounceTimer[1].args.filter = lastClick[1].button.filter
  /\ (debounceTimer = <<>> /\ lastClick # <<>>) =>
       /\ lastClick[1].runs = 1
       /\ now >= lastClick[1].at + 300
       /\ activeFilters = {lastClick[1].button.filter}
       /\ activeButtons = {lastClick[1].button}
       /\ mapCards = ExpectedCards(lastClick[1].button.filter,
                                   timeOrigin + lastClick[1].at + 300)

\* activeFilters, the active button and the list shown change only in the
\* step that runs the handler, 300 ms after the last click.
DebounceStep ==
  (activeFilters' # activeFilters \/ activeButtons' # activeButtons
     \/ mapCards' # mapCards) =>
    /\ HandlerRuns
    /\ now = lastClick[1].at + 300

\* C20: in every burst of filter clicks the handler body runs exactly once,
\* 300 ms after the last click and with that click's filter and button, and
\* activeFilters and the list shown do not change before.
C20_FilterChangeDebounced == []DebounceState /\ [][DebounceStep]_vars

\* The handler has run once, 300 ms after the last of two or more clicks
\* that followed each other by less than 300 ms, and changed the filter.
C20_Witness ==
  /\ lastClick # <<>>
  /\ lastClick[1].clicks >= 2
  /\ lastClick[1].at > 0
  /\ lastClick[1].runs = 1
  /\ now = lastClick[1].at + 300
  /\ activeFilters = {"weekend"}

---------------------------------------------------------------------------
(* Claims about a page load with the user's clicks (SpecPage) *)

\* C11: during a page load at most one geolocation request is made, namely
\* when init calls loadUserLocation in a browser with geolocation; neither
\* its failure nor any later click or timer makes a second one.
C11_OneGeolocationRequest ==
  /\ geoRequests <= 1
  /\ geoRequests = 1 <=> (hasGeolocation /\ initPc # "new")
  /\ geoRequest \in PositionErrors => geoRequests = 1

\* The request timed out, init went on to its end, the user changed the
\* filter and joined an event, and the request was still the only one.
C11_Witness ==
  /\ geoRequest = "TIMEOUT"
  /\ geoRequests = 1
  /\ initPc = "done"
  /\ lastClick # <<>>
  /\ lastClick[1].runs = 1
  /\ \E i \in 1..Len(mapCards) : mapCards[i].joined

\* The step of a join handler: a success notification is added.
JoinRuns ==
  /\ Len(notified') = Len(notified) + 1
  /\ notified'[Len(notified')].type = "success"

\* One card of the list got the disabled 'Joined' button, nothing else changed.
OneJoined(before, after) ==
  \E i \in 1..Len(before) :
    /\ ~before[i].joined
    /\ after = [before EXCEPT ![i].joined = TRUE]

\* C17: a run of handleJoinEvent or handleJoinCrew leaves cleanupEvents,
\* crews (counts included) and every storage key as they were; it adds one
\* success notification and gives the clicked card's button the disabled
\* 'Joined' state, and changes nothing else.
C17_JoinNotPersisted ==
  [][JoinRuns =>
       /\ cleanupEvents' = cleanupEvents
       /\ crews' = crews
       /\ localStorage' = localStorage
       /\ SubSeq(notified', 1, Len(notified)) = notified
       /\ \/ OneJoined(mapCards, mapCards') /\ crewCards' = crewCards
          \/ OneJoined(crewCards, crewCards') /\ mapCards' = mapCards
       /\ <<initVars, uiVars, dataVars, geoVars, weatherVars>>'
            = <<initVars, uiVars, dataVars, geoVars, weatherVars>>]_vars

\* An event and a crew were joined; the stored event still has its four
\* participants and the storage key its text.
C17_Witness ==
  /\ Len(notified) = 2
  /\ Len(mapCards) = 2
  /\ mapCards[1].joined
  /\ mapCards[1].event.participants = 4
  /\ \E i \in 1..Len(crewCards) : crewCards[i].joined
  /\ cleanupEvents.items[1].participants = 4
  /\ localStorage[CLEANUP_EVENTS] \in PageEventTexts \ {<<>>}

---------------------------------------------------------------------------
(* Claims about Utils.throttle and the window handlers (SpecWindow) *)

\* The step in which the throttled handler h runs.
Ran(h) == lastRun'[h] # lastRun[h]

\* The flag of a throttle wrapper is set exactly from a run of its handler
\* until `limit` ms after that run.
ThrottleState ==
  \A h \in Throttled :
    /\ inThrottle[h] # <<>> =>
         /\ lastRun[h] # <<>>
         /\ inThrottle[h][1] = lastRun[h][1] + ThrottleLimit[h]
         /\ now <= inThrottle[h][1]
    /\ inThrottle[h] = <<>> /\ lastRun[h] # <<>> =>
         now >= lastRun[h][1] + ThrottleLimit[h]

\* An event met with the flag clear runs the handler in the same step; a
\* run sets the flag, and comes no sooner than `limit` ms after the run
\* before it; the flag is cleared at the instant its timer falls due; the
\* header and the menu change only in a run (or by the nav toggle).
ThrottleStep ==
  /\ \A h \in Throttled :
       /\ Ran(h) =>
            /\ inThrottle[h] = <<>>
            /\ now' = now
            /\ lastRun'[h] = <<now>>
            /\ inThrottle'[h] = <<now + ThrottleLimit[h]>>
            /\ lastRun[h] # <<>> => now - lastRun[h][1] >= ThrottleLimit[h]
       /\ inThrottle[h] # <<>> /\ inThrottle'[h] # inThrottle[h] =>
            inThrottle'[h] = <<>> /\ now = inThrottle[h][1]
  /\ scrollY' # scrollY /\ inThrottle.scroll = <<>> =>
       Ran("scroll") /\ headerScrolled' = (scrollY' > 50)
  /\ innerWidth' # innerWidth /\ inThrottle.resize = <<>> =>
       Ran("resize") /\ (innerWidth' > 768 => ~menuOpen')
  /\ headerScrolled' # headerScrolled => Ran("scroll")
  /\ menuOpen /\ ~menuOpen' /\ ariaExpanded' = ariaExpanded => Ran("resize")

\* C21: a throttled handler runs synchronously on an event that finds the
\* flag clear (the first event in particular), two of its runs are at
\* least `limit` ms apart (100 ms for scroll, 250 ms for resize), events
\* arriving while the flag is set change nothing and are not replayed, and
\* the flag is cleared `limit` ms after the run that set it.
C21_ThrottledHandlers == []ThrottleState /\ [][ThrottleStep]_vars

\* The scroll handler ran a second time 100 ms after its first run, and the
\* scroll event that followed at once was dropped.
C21_Witness ==
  /\ now = 100
  /\ lastRun.scroll = <<100>>
  /\ inThrottle.scroll = <<200>>
  /\ scrollY = 51
  /\ ~headerScrolled

\* C28 as stated, in its finite form: whenever no timer of the scroll
\* throttle is pending, so that nothing more happens unless a new scroll
\* event arrives, the header carries header--scrolled iff scrollY > 50.
C28_HeaderFollowsFinalScroll ==
  inThrottle.scroll = <<>> => (headerScrolled <=> scrollY > 50)

\* C26 as stated: aria-expanded of the nav toggle equals whether the menu
\* carries nav__menu--open.
C26_AriaMatchesMenu == ariaExpanded <=> menuOpen

---------------------------------------------------------------------------
(* Claims about calculateDistance (SpecDistance) *)

\* C22: calculateDistance returns 0 when lat1 = lat2 and lng1 = lng2.
C22_ZeroForIdenticalCoordinates ==
  distResult # <<>> /\ distArgs[1] = distArgs[3] /\ distArgs[2] = distArgs[4] =>
    distResult[1] = 0

\* The distance of (30, 150) from itself is 0.
C22_Witness == distArgs = <<30, 150, 30, 150>> /\ distResult = <<0>>

---------------------------------------------------------------------------
(* Claims about the page load with user input (SpecPage, SpecLoad) *)

\* C23: the steps of init complete in the order of InitStepNames, the
\* listeners first; the location load has settled, with userLocation
\* non-null, before loadUserLocation counts as done, and the weather load has
\* settled, with weatherData non-null, before loadData and render run,
\* whatever time has passed and whatever the user clicked meanwhile.
C23_InitOrder ==
  /\ IsPrefix(initSteps, InitStepNames)
  /\ initPc # "new" <=> Len(initSteps) >= 1
  /\ Len(initSteps) >= 2 =>
       locPc = "done" /\ geoPromise.state # "pending" /\ userLocation # NoLocation
  /\ Len(initSteps) >= 3 =>
       /\ weatherPc = "done"
       /\ Settled(weatherPromise)
       /\ weatherData # <<>>
  /\ initPc = "done" <=> Len(initSteps) >= 3

\* init ran to its end 600 ms after the page load, the filter having been
\* changed meanwhile.
C23_Witness ==
  /\ initPc = "done"
  /\ initSteps = InitStepNames
  /\ now = 600
  /\ activeFilters # {"all"}
  /\ userLocation # DEFAULT_LOCATION
  /\ Len(mapCards) = 2

\* The events of the cards shown in #cleanup-map.
ShownEvents == [i \in 1..Len(mapCards) |-> mapCards[i].event]

\* The events of cleanupEvents that satisfy the token at clock t.
ExpectedShown(token, t) ==
  LET Keep(event) == Satisfies(event, token, t)
  IN SelectSeq(cleanupEvents.items, Keep)

\* C24 as stated: once init has completed, the cards shown are those of the
\* events that satisfy the active filter.
C24_CardsMatchActiveFilter ==
  initPc = "done" =>
    \E token \in activeFilters : ShownEvents = ExpectedShown(token, timeOrigin + now)

\* C25 as stated, for a page load that nothing else can fail (the
\* IntersectionObserver constructor exists and stored events are well
\* formed): after init, cleanupEvents and crews are lists and no error
\* notification was shown.
C25_ListsForEveryStoredString ==
  /\ initPc = "done"
  /\ hasIntersectionObserver
  /\ localStorage[CLEANUP_EVENTS] # JSONStringifyArray(<<NoLocationEvent>>)
  => /\ cleanupEvents.kind = "array"
     /\ crews.kind = "array"
     /\ ErrorNotifications = <<>>

\* C27 as stated: a card with the disabled 'Joined' button keeps it in the
\* next state, whenever the card of that event is still shown.
C27_JoinedButtonPersists ==
  [][\A i \in 1..Len(mapCards) :
       mapCards[i].joined =>
         \A j \in 1..Len(mapCards') :
           mapCards'[j].event.id = mapCards[i].event.id => mapCards'[j].joined]_vars

---------------------------------------------------------------------------
(* Claims about notifications (SpecNotify) *)

\* C29: a notification is in the document until it is removed, which
\* happens once and without error; while it is shown a timer that leads to
\* its removal is pending, no removal timer is overdue, and it is gone
\* 5000 + 300 ms after it was shown at the latest.
C29_NotificationRemovedOnce ==
  /\ Len(notices) = Len(notified)
  /\ \A i \in 1..Len(notices) :
       /\ notices[i].errors = 0
       /\ notices[i].removed = (IF notices[i].inDocument THEN 0 ELSE 1)
       /\ notices[i].inDocument =>
            /\ notices[i].autoClose # <<>> \/ notices[i].closing # <<>>
            /\ now <= notices[i].shownAt + AUTO_CLOSE_DELAY + REMOVE_DELAY
            /\ \A j \in 1..Len(notices[i].closing) : now <= notices[i].closing[j]

\* A notification was closed by its button and by the auto-close timer: it
\* has been removed once, and the second removal timer is still pending.
C29_Witness ==
  \E i \in 1..Len(notices) :
    /\ ~notices[i].inDocument
    /\ notices[i].removed = 1
    /\ notices[i].autoClose = <<>>
    /\ notices[i].closing = <<notices[i].shownAt + AUTO_CLOSE_DELAY + REMOVE_DELAY>>
    /\ now < notices[i].shownAt + AUTO_CLOSE_DELAY + REMOVE_DELAY

---------------------------------------------------------------------------
(* Claims about DataManager.addCleanupEvent (SpecAdd) *)

\* C30 as stated: a call of addCleanupEvent that follows a call of
\* getCleanupEvents returns the list that call returned with one element
\* appended, the event passed with a new id, and when the write succeeded
\* the call of getCleanupEvents that follows returns the same list.
C30_AppendsToPreviousList ==
  \A k \in 2..Len(dmLog) :
    dmLog[k].call = "addCleanupEvent" /\ dmLog[k - 1].call = "getCleanupEvents" =>
      /\ ~dmLog[k].outcome.threw
      /\ dmLog[k].outcome.value.kind = "array"
      /\ \E event \in NewEvents :
           /\ dmLog[k].outcome.value.items[Len(dmLog[k].outcome.value.items)].id
                # event.id
           /\ [dmLog[k].outcome.value.items[Len(dmLog[k].outcome.value.items)]
                 EXCEPT !.id = event.id] = event
      /\ SubSeq(dmLog[k].outcome.value.items, 1,
                Len(dmLog[k].outcome.value.items) - 1)
           = dmLog[k - 1].outcome.value.items
      /\ k < Len(dmLog) /\ dmLog[k + 1].call = "getCleanupEvents" /\ storageWritable =>
           dmLog[k + 1].outcome = dmLog[k].outcome

=============================================================================
